---- MODULE Spec2Model ----
(***************************************************************************)
(* Model of the aviary control loop: device model (models/device.py),      *)
(* actuators (actuators/base.py, actuators/devices.py), the device         *)
(* controller (actuators/controller.py) and the environment controller     *)
(* (core/control.py).                                                      *)
(*                                                                         *)
(* Optional values (Python None / a value) are sequences of length <= 1:   *)
(* <<>> is None and <<v>> is the value v.  Strings built with f-strings    *)
(* are tuples <<kind, argument>>; the empty tuple is None.                 *)
(* Floats are modelled by the integers the bounded inputs take.            *)
(***************************************************************************)
EXTENDS Integers, Sequences, FiniteSets, TLC

VARIABLES
    devices,         \* DeviceController._devices: id -> actuator fields
    faulty,          \* ids of the actuators whose _execute raises (device fault)
    clock,           \* datetime.now(), one tick per top-level call
    limits,          \* EnvironmentController.limits
    reading_buffer,  \* ReadingBuffer.readings
    last_action,     \* EnvironmentController._last_action
    call,            \* the last call made: name and arguments
    ret,             \* what that call returned or raised
    menu,            \* MenuManager._parameters_menu: position and locals
    reader,          \* SensorReader: stop event, thread handle, poll threads
    system,          \* AviaryControlSystem: oracle_storage, using_mock_data
    storage,         \* OracleStorage: _connection and the frame of connect()
    custom_alerts    \* SystemConfig.custom_alerts

vars == <<devices, faulty, clock, limits, reading_buffer, last_action, call, ret,
          menu, reader, system, storage, custom_alerts>>

None == <<>>

Some(v) == <<v>>

----------------------------------------------------------------------------
(* Bounds of the model *)

MaxCmds == 2

MaxCalls == 2

MaxReadings == 3

----------------------------------------------------------------------------
(* models/device.py *)

DeviceState == {"off", "on", "error", "partial"}

(* DeviceCommand._validate_command: construction raises ValueError unless
   this holds. *)
ValidCommand(action, value) ==
    /\ ~(action = "partial" /\ value = None)
    /\ ~(value # None /\ ~(0 <= value[1] /\ value[1] <= 100))

(* DeviceStatus._validate_status: construction raises ValueError unless
   this holds. *)
ValidStatus(state, value, error_message) ==
    /\ ~(state = "error" /\ error_message = None)
    /\ ~(state = "partial" /\ value = None)
    /\ ~(value # None /\ ~(0 <= value[1] /\ value[1] <= 100))

----------------------------------------------------------------------------
(* actuators/controller.py: the registry, in insertion order *)

Fans == <<"FAN001", "FAN002", "FAN003", "FAN004">>

Curtains == <<"CUR001", "CUR002">>

Inlets == <<"INL001", "INL002", "INL003", "INL004">>

Heaters == <<"HTR001", "HTR002">>

Nebulizers == <<"NEB001", "NEB002">>

Alarms == <<"ALM001", "ALM002">>

Registry == Fans \o Curtains \o Inlets \o Heaters \o Nebulizers \o Alarms

Range(s) == {s[i] : i \in 1..Len(s)}

DeviceIds == Range(Registry)

DeviceTypeOf(id) ==
    IF id \in Range(Fans) THEN "EXHAUST_FAN"
    ELSE IF id \in Range(Curtains) THEN "CURTAIN"
    ELSE IF id \in Range(Inlets) THEN "INLET"
    ELSE IF id \in Range(Heaters) THEN "HEATER"
    ELSE IF id \in Range(Nebulizers) THEN "NEBULIZER"
    ELSE "ALARM"

(* ExhaustFan, Curtain, Inlet derive from VariableActuator; Heater,
   Nebulizer, Alarm from BinaryActuator. *)
IsVariable(id) == DeviceTypeOf(id) \in {"EXHAUST_FAN", "CURTAIN", "INLET"}

----------------------------------------------------------------------------
(* actuators/base.py, actuators/devices.py *)

(* BaseActuator.__init__ plus the subclass fields: level is
   ExhaustFan._current_speed / Curtain._position / Inlet._position,
   message is Alarm._message. *)
NewActuator(id) ==
    [state |-> "off", value |-> None, error_message |-> None, last_updated |-> 0,
     level |-> IF IsVariable(id) THEN Some(0) ELSE None,
     message |-> None]

(* BinaryActuator._execute / VariableActuator._execute: the message of the
   exception raised, None when the command is accepted.  A faulty device
   raises whatever the command, with an exception whose str() is not
   empty. *)
ExecuteError(id, action, value) ==
    IF id \in faulty THEN <<"fault", id>>
    ELSE IF IsVariable(id) THEN
        IF action = "partial" /\ value = None THEN <<"partial_requires_value", id>>
        ELSE IF value # None /\ ~(0 <= value[1] /\ value[1] <= 100)
            THEN <<"invalid_value", value[1]>>
        ELSE None
    ELSE
        IF action = "partial" THEN <<"only_on_off", id>>
        ELSE IF value # None THEN <<"no_value_parameter", id>>
        ELSE None

(* ExhaustFan._execute / Curtain._execute / Inlet._execute after the
   validation: the derived speed or position. *)
LevelAfter(id, action, value, old) ==
    IF ~IsVariable(id) THEN old
    ELSE IF action = "off" THEN Some(0)
    ELSE IF action = "on" THEN Some(100)
    ELSE value

(* Mutant of ActuatorAfter: a failing command leaves the actuator as it
   was. *)
ActuatorAfterFailureIgnored(id, dev, action, value, now) ==
    IF ExecuteError(id, action, value) = None
    THEN [dev EXCEPT !.state = action, !.value = value, !.error_message = None,
                     !.level = LevelAfter(id, action, value, dev.level),
                     !.last_updated = now]
    ELSE dev

(* Mutant of ActuatorAfter: an accepted command does not clear the error
   message. *)
ActuatorAfterMessageKept(id, dev, action, value, now) ==
    IF ExecuteError(id, action, value) = None
    THEN [dev EXCEPT !.state = action, !.value = value,
                     !.level = LevelAfter(id, action, value, dev.level),
                     !.last_updated = now]
    ELSE [dev EXCEPT !.state = "error",
                     !.error_message = ExecuteError(id, action, value)]

(* BaseActuator.execute_command, after the device id check: the fields of
   the actuator when the call leaves, by return or by raise. *)
ActuatorAfter(id, dev, action, value, now) ==
    IF ExecuteError(id, action, value) = None
    THEN [dev EXCEPT !.state = action, !.value = value, !.error_message = None,
                     !.level = LevelAfter(id, action, value, dev.level),
                     !.last_updated = now]
    ELSE [dev EXCEPT !.state = "error",
                     !.error_message = ExecuteError(id, action, value)]

(* Mutant of ActuatorExecute: the id check sits inside the try block, so a
   mismatch is recorded as a failure of the actuator. *)
ActuatorExecuteMismatchRecorded(id, dev, cmd_id, action, value, now) ==
    IF cmd_id # id
    THEN [dev EXCEPT !.state = "error", !.error_message = <<"id_mismatch", cmd_id>>]
    ELSE ActuatorAfter(id, dev, action, value, now)

(* BaseActuator.execute_command: a command addressed to another device is
   refused before anything is touched. *)
ActuatorExecute(id, dev, cmd_id, action, value, now) ==
    IF cmd_id # id THEN dev ELSE ActuatorAfter(id, dev, action, value, now)

(* BaseActuator.status: the DeviceStatus snapshot. *)
StatusOf(id, dev) ==
    [device_id |-> id, device_type |-> DeviceTypeOf(id), state |-> dev.state,
     value |-> dev.value, last_updated |-> dev.last_updated,
     error_message |-> dev.error_message]

(* BaseActuator.status raises ValueError when DeviceStatus rejects the
   fields. *)
StatusRaises(dev) == ~ValidStatus(dev.state, dev.value, dev.error_message)

NoRet == [kind |-> "none", status |-> None, results |-> <<>>, action |-> None,
          error |-> None]

Returned(status) == [NoRet EXCEPT !.kind = "ok", !.status = Some(status)]

Raised(kind, msg) == [NoRet EXCEPT !.kind = kind, !.error = msg]

(* BaseActuator.execute_command on the actuator `id`, as seen by the caller:
   DeviceError on a mismatched id or a rejected command, ValueError when the
   final self.status cannot be built, the new status otherwise. *)
ActuatorResult(id, dev, cmd_id, action, value, now) ==
    IF cmd_id # id THEN Raised("DeviceError", <<"id_mismatch", cmd_id>>)
    ELSE IF ExecuteError(id, action, value) # None
        THEN Raised("DeviceError", ExecuteError(id, action, value))
    ELSE IF StatusRaises(ActuatorAfter(id, dev, action, value, now))
        THEN Raised("ValueError", <<"invalid_status", id>>)
    ELSE Returned(StatusOf(id, ActuatorAfter(id, dev, action, value, now)))

NoCall == [name |-> "none", device_id |-> "", target |-> "", action |-> "",
           value |-> None, reading |-> None, args |-> <<>>]

----------------------------------------------------------------------------
(* Limits and initial state *)

(* main.py: the limits of the default configuration. *)
DefaultLimits ==
    [temp_min |-> 18, temp_max |-> 32, humidity_min |-> 50, humidity_max |-> 70,
     co2_max |-> 2000, ammonia_max |-> 25, pressure_target |-> 25]

(* MenuManager before any parameters update: pc is the position inside
   _parameters_menu (0 outside it, i in 1..7 before the i-th assignment,
   8 before save_config), old the limits the prompts showed, new the values
   parsed from the input, saved the limits of the configuration file. *)
IdleMenu == [pc |-> 0, old |-> None, new |-> None, saved |-> None, updates |-> 0]

(* The poll threads a SensorReader can have created. *)
MaxThreads == 2

ThreadIds == 1 .. MaxThreads

(* SensorReader.__init__: the stop event is clear, there is no thread, the
   queue is empty.  pc[t] is the position of thread t in _reading_loop,
   local[t] its variable `reading`, caller the position of the thread that
   calls start and stop, last the outcome of the latest iteration; starts,
   polls, complete and invoked count the calls of start, the polls, the
   polls that gave a reading and the calls of the callback. *)
NewSensorReader ==
    [stop_event |-> FALSE, reader_thread |-> None,
     pc |-> [t \in ThreadIds |-> "new"], local |-> [t \in ThreadIds |-> None],
     reading_queue |-> <<>>, caller |-> "idle", starts |-> 0, polls |-> 0,
     complete |-> 0, invoked |-> 0, last |-> "none"]

(* AviaryControlSystem.__init__ with use_oracle = False: no storage, the
   mock-data flag set.  stores lists the Oracle stores the latest
   _handle_reading attempted. *)
SystemWithoutOracle ==
    [oracle_storage |-> None, using_mock_data |-> TRUE, stores |-> <<>>]

(* OracleStorage.__init__: no connection; connect() has not been called. *)
NewOracleStorage ==
    [connection |-> None, pc |-> "idle", max_retries |-> 0, retry_delay |-> 0,
     retry_count |-> 0, last_exception |-> None, outcomes |-> <<>>,
     attempts |-> 0, waits |-> <<>>, raised |-> None, calls |-> 0]

(* DeviceController.__init__ and EnvironmentController.__init__. *)
InitSystem ==
    /\ devices = [id \in DeviceIds |-> NewActuator(id)]
    /\ clock = 0
    /\ reading_buffer = <<>>
    /\ last_action = None
    /\ ret = NoRet
    /\ menu = IdleMenu
    /\ reader = NewSensorReader
    /\ system = SystemWithoutOracle
    /\ storage = NewOracleStorage
    /\ custom_alerts = <<>>

----------------------------------------------------------------------------
(* Single commands: DeviceController.execute_command and
   BaseActuator.execute_command *)

CmdActions == DeviceState

CmdValues == {None, Some(50), Some(150)}

(* The ids commands are addressed to: one variable device, one binary
   device and an id that is not in the registry. *)
UnknownId == "XXX999"

CommandedIds == {"FAN001", "HTR001"}

(* DeviceController.execute_command(command), command built by
   DeviceCommand(device_id, action, value). *)
ControllerExecuteCommand(cmd_id, action, value) ==
    /\ clock < MaxCmds
    /\ ValidCommand(action, value)
    /\ clock' = clock + 1
    /\ call' = [NoCall EXCEPT !.name = "controller.execute_command",
                              !.device_id = cmd_id, !.action = action,
                              !.value = value]
    /\ IF cmd_id \notin DeviceIds
       THEN /\ ret' = Raised("DeviceError", <<"not_found", cmd_id>>)
            /\ devices' = devices
       ELSE /\ ret' = ActuatorResult(cmd_id, devices[cmd_id], cmd_id, action, value,
                                     clock + 1)
            /\ devices' = [devices EXCEPT ![cmd_id] =
                               ActuatorExecute(cmd_id, @, cmd_id, action, value,
                                               clock + 1)]
    /\ UNCHANGED <<faulty, limits, reading_buffer, last_action, menu, reader, system,
                   storage, custom_alerts>>

(* BaseActuator.execute_command(command) called on the actuator `id` with a
   command object whose fields are (cmd_id, action, value); the fields of a
   DeviceCommand can be assigned after construction, so any value reaches
   the type-specific step. *)
ActuatorExecuteCommand(id, cmd_id, action, value) ==
    /\ clock < MaxCmds
    /\ clock' = clock + 1
    /\ call' = [NoCall EXCEPT !.name = "actuator.execute_command",
                              !.target = id, !.device_id = cmd_id,
                              !.action = action, !.value = value]
    /\ ret' = ActuatorResult(id, devices[id], cmd_id, action, value, clock + 1)
    /\ devices' = [devices EXCEPT ![id] =
                       ActuatorExecute(id, @, cmd_id, action, value, clock + 1)]
    /\ UNCHANGED <<faulty, limits, reading_buffer, last_action, menu, reader, system,
                   storage, custom_alerts>>

InitCmd ==
    /\ InitSystem
    /\ faulty = {}
    /\ limits = DefaultLimits
    /\ call = NoCall

NextCmd ==
    \/ \E cmd_id \in CommandedIds \cup {UnknownId}, action \in CmdActions,
          value \in CmdValues :
           ControllerExecuteCommand(cmd_id, action, value)
    \/ \E id \in CommandedIds, cmd_id \in CommandedIds, action \in CmdActions,
          value \in CmdValues :
           ActuatorExecuteCommand(id, cmd_id, action, value)

SpecCmd == InitCmd /\ [][NextCmd]_vars

----------------------------------------------------------------------------
(* The fan-out helpers of DeviceController *)

(* Mutant of Caught: the helper catches nothing. *)
CaughtNothing(kind) == FALSE

(* `except DeviceError`: the exceptions a helper catches per device. *)
Caught(kind) == kind = "DeviceError"

(* The entry a helper appends for a device whose command raised a
   DeviceError: (id, self._fans[id].status), read after the failure. *)
FailedEntry(id, dev) == <<id, StatusOf(id, dev)>>

(* Alarm.set_message *)
SetMessage(dev, setmsg) ==
    IF setmsg.set THEN [dev EXCEPT !.message = setmsg.message] ELSE dev

KeepMessage == [set |-> FALSE, message |-> None]

(* The loop of a helper from the i-th device of its class on.  acc holds the
   registry, the results so far and the exception that left the loop. *)
RECURSIVE FanOutFrom(_, _, _, _, _, _, _)
FanOutFrom(ids, i, action, value, setmsg, now, acc) ==
    IF i > Len(ids) \/ acc.raised # "" THEN acc
    ELSE
        LET id   == ids[i]
            dev0 == SetMessage(acc.devs[id], setmsg)
            res  == ActuatorResult(id, dev0, id, action, value, now)
            dev1 == ActuatorExecute(id, dev0, id, action, value, now)
            devs1 == [acc.devs EXCEPT ![id] = dev1]
        IN  IF ~ValidCommand(action, value)
            THEN [acc EXCEPT !.devs = [acc.devs EXCEPT ![id] = dev0],
                             !.raised = "ValueError"]
            ELSE IF res.kind = "ok"
            THEN FanOutFrom(ids, i + 1, action, value, setmsg, now,
                     [acc EXCEPT !.devs = devs1,
                                 !.results = Append(@, <<id, res.status[1]>>)])
            ELSE IF Caught(res.kind) /\ ~StatusRaises(dev1)
            THEN FanOutFrom(ids, i + 1, action, value, setmsg, now,
                     [acc EXCEPT !.devs = devs1,
                                 !.results = Append(@, FailedEntry(id, dev1))])
            ELSE [acc EXCEPT !.devs = devs1,
                             !.raised = IF Caught(res.kind) THEN "ValueError"
                                        ELSE res.kind]

FanOut(ids, action, value, setmsg, devs, now) ==
    FanOutFrom(ids, 1, action, value, setmsg, now,
               [devs |-> devs, results |-> <<>>, raised |-> ""])

(* What the caller of a helper sees. *)
FanOutRet(out) ==
    IF out.raised = "" THEN [NoRet EXCEPT !.kind = "ok", !.results = out.results]
    ELSE Raised(out.raised, <<"escaped">>)

HelperCall(name, ids, action, value, setmsg) ==
    LET out == FanOut(ids, action, value, setmsg, devices, clock + 1)
    IN  /\ clock < MaxCalls
        /\ clock' = clock + 1
        /\ call' = [NoCall EXCEPT !.name = name, !.action = action, !.value = value]
        /\ devices' = out.devs
        /\ ret' = FanOutRet(out)
        /\ UNCHANGED <<faulty, limits, reading_buffer, last_action, menu, reader, system,
                   storage, custom_alerts>>

(* DeviceController.set_fan_speeds(speed) *)
SetFanSpeeds(speed) == HelperCall("set_fan_speeds", Fans, "partial", Some(speed), KeepMessage)

(* DeviceController.set_curtain_positions(position) *)
SetCurtainPositions(position) ==
    HelperCall("set_curtain_positions", Curtains, "partial", Some(position), KeepMessage)

(* DeviceController.set_inlet_positions(position) *)
SetInletPositions(position) ==
    HelperCall("set_inlet_positions", Inlets, "partial", Some(position), KeepMessage)

(* set_heaters / set_nebulizers: ValueError for PARTIAL before any command. *)
BinaryHelperCall(name, ids, state) ==
    IF state = "partial"
    THEN /\ clock < MaxCalls
         /\ clock' = clock + 1
         /\ call' = [NoCall EXCEPT !.name = name, !.action = state]
         /\ ret' = Raised("ValueError", <<"only_on_off_states">>)
         /\ UNCHANGED <<devices, faulty, limits, reading_buffer, last_action, menu, reader, system,
                   storage, custom_alerts>>
    ELSE HelperCall(name, ids, state, None, KeepMessage)

(* DeviceController.set_heaters(state) *)
SetHeaters(state) == BinaryHelperCall("set_heaters", Heaters, state)

(* DeviceController.set_nebulizers(state) *)
SetNebulizers(state) == BinaryHelperCall("set_nebulizers", Nebulizers, state)

(* DeviceController.trigger_alarm(message) *)
TriggerAlarm(message) ==
    HelperCall("trigger_alarm", Alarms, "on", None, [set |-> TRUE, message |-> message])

(* DeviceController.clear_alarms() *)
ClearAlarms ==
    HelperCall("clear_alarms", Alarms, "off", None, [set |-> TRUE, message |-> None])

(* A device starts or stops failing: its _execute raises from now on. *)
FaultSets ==
    {{}, {"FAN002"}, Range(Fans), {"CUR001"}, {"INL004"}, {"HTR001"},
     Range(Nebulizers), {"ALM002"}}

DeviceFaults(F) ==
    /\ F # faulty
    /\ faulty' = F
    /\ UNCHANGED <<devices, clock, limits, reading_buffer, last_action, call, ret, menu, reader, system,
                   storage, custom_alerts>>

Levels == {50, 100, 150}

AlarmMessages == {<<"alarm", 1>>}

InitFan ==
    /\ InitSystem
    /\ faulty = {}
    /\ limits = DefaultLimits
    /\ call = NoCall

NextFan ==
    \/ \E speed \in Levels : SetFanSpeeds(speed)
    \/ \E position \in Levels : SetCurtainPositions(position)
    \/ \E position \in Levels : SetInletPositions(position)
    \/ \E state \in DeviceState : SetHeaters(state)
    \/ \E state \in DeviceState : SetNebulizers(state)
    \/ \E message \in AlarmMessages : TriggerAlarm(message)
    \/ ClearAlarms
    \/ \E F \in FaultSets : DeviceFaults(F)

SpecFan == InitFan /\ [][NextFan]_vars

----------------------------------------------------------------------------
(* models/sensor_data.py, models/config.py: validated inputs *)

(* SensorReading.__post_init__ *)
ValidReading(r) ==
    /\ -10 <= r.temperature /\ r.temperature <= 50
    /\ -20 <= r.external_temp /\ r.external_temp <= 50
    /\ 0 <= r.humidity /\ r.humidity <= 100
    /\ 0 <= r.co2_level /\ r.co2_level <= 5000
    /\ 0 <= r.ammonia_level /\ r.ammonia_level <= 100
    /\ -50 <= r.pressure /\ r.pressure <= 50

(* EnvironmentalLimits.__post_init__ *)
ValidLimits(l) ==
    /\ -10 <= l.temp_min /\ l.temp_min <= l.temp_max /\ l.temp_max <= 50
    /\ 0 <= l.humidity_min /\ l.humidity_min <= l.humidity_max /\ l.humidity_max <= 100
    /\ 0 <= l.co2_max /\ l.co2_max <= 5000
    /\ 0 <= l.ammonia_max /\ l.ammonia_max <= 100
    /\ -50 <= l.pressure_target /\ l.pressure_target <= 50

----------------------------------------------------------------------------
(* core/control.py: EnvironmentController._determine_actions *)

Min(a, b) == IF a <= b THEN a ELSE b

Max(a, b) == IF a >= b THEN a ELSE b

PowerWarning == <<"ALERTA: Sistema operando com bateria!">>

(* Mutant of Baseline: the checks start from the previous action instead of
   a fresh one. *)
BaselineFromLastAction ==
    IF last_action = None
    THEN [fan_speed |-> 20, curtain_position |-> 0, inlet_position |-> 20,
          heaters_on |-> FALSE, nebulizers_on |-> FALSE, alarm_message |-> None]
    ELSE last_action[1]

(* The action the checks start from. *)
Baseline ==
    [fan_speed |-> 20, curtain_position |-> 0, inlet_position |-> 20,
     heaters_on |-> FALSE, nebulizers_on |-> FALSE, alarm_message |-> None]

(* Mutant of CheckTemperature: the curtains are not opened on high
   temperature. *)
CheckTemperatureCurtainsShut(a, r, l) ==
    IF r.temperature > l.temp_max
    THEN [a EXCEPT !.fan_speed = 100,
                   !.nebulizers_on = TRUE,
                   !.alarm_message =
                       IF r.temperature > l.temp_max + 5
                       THEN <<"Temperatura critica alta", r.temperature>> ELSE @]
    ELSE IF r.temperature < l.temp_min
    THEN [a EXCEPT !.heaters_on = TRUE,
                   !.curtain_position = 0,
                   !.alarm_message =
                       IF r.temperature < l.temp_min - 5
                       THEN <<"Temperatura critica baixa", r.temperature>> ELSE @]
    ELSE a

(* The low-temperature test written as a second `if` instead of `elif`. *)
CheckTemperatureBothBranches(a, r, l) ==
    LET high == IF r.temperature > l.temp_max
                THEN [a EXCEPT !.fan_speed = 100,
                               !.nebulizers_on = TRUE,
                               !.curtain_position =
                                   IF r.external_temp < r.temperature THEN 100 ELSE @,
                               !.alarm_message =
                                   IF r.temperature > l.temp_max + 5
                                   THEN <<"Temperatura critica alta", r.temperature>>
                                   ELSE @]
                ELSE a
    IN  IF r.temperature < l.temp_min
        THEN [high EXCEPT !.heaters_on = TRUE,
                          !.curtain_position = 0,
                          !.alarm_message =
                              IF r.temperature < l.temp_min - 5
                              THEN <<"Temperatura critica baixa", r.temperature>>
                              ELSE @]
        ELSE high

CheckTemperature(a, r, l) ==
    IF r.temperature > l.temp_max
    THEN [a EXCEPT !.fan_speed = 100,
                   !.nebulizers_on = TRUE,
                   !.curtain_position =
                       IF r.external_temp < r.temperature THEN 100 ELSE @,
                   !.alarm_message =
                       IF r.temperature > l.temp_max + 5
                       THEN <<"Temperatura critica alta", r.temperature>> ELSE @]
    ELSE IF r.temperature < l.temp_min
    THEN [a EXCEPT !.heaters_on = TRUE,
                   !.curtain_position = 0,
                   !.alarm_message =
                       IF r.temperature < l.temp_min - 5
                       THEN <<"Temperatura critica baixa", r.temperature>> ELSE @]
    ELSE a

CheckHumidity(a, r, l) ==
    IF r.humidity > l.humidity_max
    THEN [a EXCEPT !.fan_speed = Max(@, 80)]
    ELSE IF r.humidity < l.humidity_min
    THEN [a EXCEPT !.nebulizers_on = TRUE, !.inlet_position = Min(@, 40)]
    ELSE a

CheckCO2(a, r, l) ==
    IF r.co2_level > l.co2_max
    THEN [a EXCEPT !.fan_speed = 100,
                   !.curtain_position = Max(@, 50),
                   !.alarm_message = <<"Nivel alto de CO2", r.co2_level>>]
    ELSE a

CheckAmmonia(a, r, l) ==
    IF r.ammonia_level > l.ammonia_max
    THEN [a EXCEPT !.fan_speed = 100,
                   !.inlet_position = 100,
                   !.alarm_message = <<"Nivel alto de amonia", r.ammonia_level>>]
    ELSE a

(* The pressure adjustment without its cap of 100. *)
CheckPressureUncapped(a, r, l) ==
    IF r.pressure > l.pressure_target + 5
    THEN [a EXCEPT !.inlet_position =
              Max(@, 50 + ((r.pressure - l.pressure_target) * 2))]
    ELSE a

CheckPressure(a, r, l) ==
    IF r.pressure > l.pressure_target + 5
    THEN [a EXCEPT !.inlet_position =
              Max(@, Min(100, 50 + ((r.pressure - l.pressure_target) * 2)))]
    ELSE a

(* Mutant of CheckPower: the heaters are left as decided. *)
CheckPowerHeatersKept(a, r) ==
    IF ~r.power_ok
    THEN [a EXCEPT !.alarm_message = PowerWarning,
                   !.fan_speed = Min(@, 60),
                   !.nebulizers_on = FALSE]
    ELSE a

CheckPower(a, r) ==
    IF ~r.power_ok
    THEN [a EXCEPT !.alarm_message = PowerWarning,
                   !.fan_speed = Min(@, 60),
                   !.heaters_on = FALSE,
                   !.nebulizers_on = FALSE]
    ELSE a

(* Mutant of DetermineActions: the ammonia check runs before the CO2
   check. *)
DetermineActionsAmmoniaFirst(r, l) ==
    CheckPower(
        CheckPressure(
            CheckCO2(
                CheckAmmonia(
                    CheckHumidity(
                        CheckTemperature(Baseline, r, l), r, l), r, l), r, l), r, l), r)

DetermineActions(r, l) ==
    CheckPower(
        CheckPressure(
            CheckAmmonia(
                CheckCO2(
                    CheckHumidity(
                        CheckTemperature(Baseline, r, l), r, l), r, l), r, l), r, l), r)

----------------------------------------------------------------------------
(* _determine_actions as a function of one reading and the limits *)

Reading(t, e, h, c, n, p, ok) ==
    [temperature |-> t, external_temp |-> e, humidity |-> h, co2_level |-> c,
     ammonia_level |-> n, pressure |-> p, power_ok |-> ok]

Readings ==
    {r \in {Reading(t, e, h, c, n, p, ok) :
                t \in {12, 13, 17, 18, 32, 33, 37, 38, 40}, e \in {10, 35, 45},
                h \in {49, 50, 70, 71}, c \in {2000, 2001}, n \in {25, 26},
                p \in {30, 31, 50}, ok \in BOOLEAN} : ValidReading(r)}

LimitsSet ==
    {l \in {DefaultLimits,
            [temp_min |-> 33, temp_max |-> 33, humidity_min |-> 0,
             humidity_max |-> 100, co2_max |-> 5000, ammonia_max |-> 0,
             pressure_target |-> -50],
            [temp_min |-> 13, temp_max |-> 40, humidity_min |-> 71,
             humidity_max |-> 71, co2_max |-> 0, ammonia_max |-> 100,
             pressure_target |-> 45]} : ValidLimits(l)}

InitDet ==
    /\ InitSystem
    /\ faulty = {}
    /\ limits \in LimitsSet
    /\ \E r \in Readings : call = [NoCall EXCEPT !.reading = Some(r)]

(* EnvironmentController._determine_actions(reading) on the drawn reading. *)
DetermineActionsCall ==
    /\ call.name = "none"
    /\ call' = [call EXCEPT !.name = "_determine_actions"]
    /\ ret' = [NoRet EXCEPT !.kind = "ok",
                            !.action = Some(DetermineActions(call.reading[1], limits))]
    /\ UNCHANGED <<devices, faulty, clock, limits, reading_buffer, last_action, menu, reader, system,
                   storage, custom_alerts>>

NextDet == DetermineActionsCall

SpecDet == InitDet /\ [][NextDet]_vars

----------------------------------------------------------------------------
(* core/control.py: EnvironmentController.process_reading *)

(* ReadingBuffer.__init__: max_size *)
MaxSize == 60

(* add_reading dropping the newest entry of a full buffer. *)
AddReadingEvictNewest(buf, r) ==
    IF Len(Append(buf, r)) > MaxSize THEN buf ELSE Append(buf, r)

(* ReadingBuffer.add_reading *)
AddReading(buf, r) ==
    IF Len(Append(buf, r)) > MaxSize THEN Tail(Append(buf, r)) ELSE Append(buf, r)

(* One helper of the sequence process_reading runs; a helper is skipped
   once an exception has left an earlier one. *)
ThenHelper(acc, ids, action, value, setmsg, now) ==
    IF acc.raised # "" THEN acc
    ELSE IF action = "partial" /\ ~IsVariable(ids[1])
    THEN [acc EXCEPT !.raised = "ValueError"]
    ELSE FanOutFrom(ids, 1, action, value, setmsg, now, acc)

OnOff(b) == IF b THEN "on" ELSE "off"

(* Mutant of ApplyAction: an action without alarm message leaves the alarms
   as they are. *)
ApplyActionAlarmsLatched(a, devs, now) ==
    LET s0 == [devs |-> devs, results |-> <<>>, raised |-> ""]
        s1 == ThenHelper(s0, Fans, "partial", Some(a.fan_speed), KeepMessage, now)
        s2 == ThenHelper(s1, Curtains, "partial", Some(a.curtain_position),
                         KeepMessage, now)
        s3 == ThenHelper(s2, Inlets, "partial", Some(a.inlet_position),
                         KeepMessage, now)
        s4 == ThenHelper(s3, Heaters, OnOff(a.heaters_on), None, KeepMessage, now)
        s5 == ThenHelper(s4, Nebulizers, OnOff(a.nebulizers_on), None,
                         KeepMessage, now)
    IN  IF a.alarm_message # None
        THEN ThenHelper(s5, Alarms, "on", None,
                        [set |-> TRUE, message |-> a.alarm_message], now)
        ELSE s5

(* process_reading switching the curtains off for a position of 0 instead
   of commanding partial with value 0. *)
ApplyActionShutCurtainsOff(a, devs, now) ==
    LET s0 == [devs |-> devs, results |-> <<>>, raised |-> ""]
        s1 == ThenHelper(s0, Fans, "partial", Some(a.fan_speed), KeepMessage, now)
        s2 == IF a.curtain_position = 0
              THEN ThenHelper(s1, Curtains, "off", None, KeepMessage, now)
              ELSE ThenHelper(s1, Curtains, "partial", Some(a.curtain_position),
                              KeepMessage, now)
        s3 == ThenHelper(s2, Inlets, "partial", Some(a.inlet_position),
                         KeepMessage, now)
        s4 == ThenHelper(s3, Heaters, OnOff(a.heaters_on), None, KeepMessage, now)
        s5 == ThenHelper(s4, Nebulizers, OnOff(a.nebulizers_on), None,
                         KeepMessage, now)
    IN  IF a.alarm_message # None
        THEN ThenHelper(s5, Alarms, "on", None,
                        [set |-> TRUE, message |-> a.alarm_message], now)
        ELSE ThenHelper(s5, Alarms, "off", None,
                        [set |-> TRUE, message |-> None], now)

(* The device commands of process_reading for the action a, in order. *)
ApplyAction(a, devs, now) ==
    LET s0 == [devs |-> devs, results |-> <<>>, raised |-> ""]
        s1 == ThenHelper(s0, Fans, "partial", Some(a.fan_speed), KeepMessage, now)
        s2 == ThenHelper(s1, Curtains, "partial", Some(a.curtain_position),
                         KeepMessage, now)
        s3 == ThenHelper(s2, Inlets, "partial", Some(a.inlet_position),
                         KeepMessage, now)
        s4 == ThenHelper(s3, Heaters, OnOff(a.heaters_on), None, KeepMessage, now)
        s5 == ThenHelper(s4, Nebulizers, OnOff(a.nebulizers_on), None,
                         KeepMessage, now)
    IN  IF a.alarm_message # None
        THEN ThenHelper(s5, Alarms, "on", None,
                        [set |-> TRUE, message |-> a.alarm_message], now)
        ELSE ThenHelper(s5, Alarms, "off", None,
                        [set |-> TRUE, message |-> None], now)

(* Mutant of ProcessReading: only the first action is remembered. *)
ProcessReadingFirstActionKept(r) ==
    LET a   == DetermineActions(r, limits)
        out == ApplyAction(a, devices, clock + 1)
    IN  /\ clock < MaxReadings
        /\ clock' = clock + 1
        /\ call' = [NoCall EXCEPT !.name = "process_reading", !.reading = Some(r)]
        /\ reading_buffer' = AddReading(reading_buffer, r)
        /\ last_action' = IF last_action = None THEN Some(a) ELSE last_action
        /\ devices' = out.devs
        /\ ret' = FanOutRet(out)
        /\ UNCHANGED <<faulty, limits, menu, reader, system,
                   storage, custom_alerts>>

(* EnvironmentController.get_last_action() *)
GetLastAction == last_action

(* EnvironmentController.process_reading(reading) *)
ProcessReading(r) ==
    LET a   == DetermineActions(r, limits)
        out == ApplyAction(a, devices, clock + 1)
    IN  /\ clock < MaxReadings
        /\ clock' = clock + 1
        /\ call' = [NoCall EXCEPT !.name = "process_reading", !.reading = Some(r)]
        /\ reading_buffer' = AddReading(reading_buffer, r)
        /\ last_action' = Some(a)
        /\ devices' = out.devs
        /\ ret' = FanOutRet(out)
        /\ UNCHANGED <<faulty, limits, menu, reader, system,
                   storage, custom_alerts>>

LoopReadings ==
    {r \in {Reading(t, 20, 60, c, 10, 25, ok) :
                t \in {10, 25, 40}, c \in {1000, 3000}, ok \in BOOLEAN} :
        ValidReading(r)}

Init ==
    /\ InitSystem
    /\ faulty = {}
    /\ limits = DefaultLimits
    /\ call = NoCall

Next == \E r \in LoopReadings : ProcessReading(r)

Spec == Init /\ [][Next]_vars

----------------------------------------------------------------------------
(* Properties of _determine_actions, under SpecDet *)

Determined == call.name = "_determine_actions" /\ ret.kind = "ok"

TheReading == call.reading[1]

TheAction == ret.action[1]

(* C1: for a reading with power_ok = False, whatever its other fields and
   the limits, the action has the heaters off, the nebulizers off, a fan
   speed of at most 60 and the power warning as alarm message. *)
C1_PowerFailure ==
    (Determined /\ ~TheReading.power_ok) =>
        /\ TheAction.heaters_on = FALSE
        /\ TheAction.nebulizers_on = FALSE
        /\ TheAction.fan_speed <= 60
        /\ TheAction.alarm_message = PowerWarning

(* A cold, humid, unpowered house: the earlier checks asked for heaters and
   for fans at 80 or more. *)
C1_Witness ==
    /\ Determined
    /\ ~TheReading.power_ok
    /\ TheReading.temperature < limits.temp_min
    /\ TheReading.humidity > limits.humidity_max
    /\ TheAction.fan_speed = 60
    /\ TheAction.heaters_on = FALSE
    /\ TheAction.alarm_message = PowerWarning

CriticalHigh(r, l) == r.temperature > l.temp_max + 5

CriticalLow(r, l) == r.temperature < l.temp_min - 5

(* C2: the alarm message is that of the last check that triggers, in the
   order temperature, CO2, ammonia, power; there is none iff no alarm
   condition holds. *)
C2_LastWriteWins ==
    Determined =>
        LET r == TheReading
            l == limits
        IN  /\ TheAction.alarm_message =
                 IF ~r.power_ok THEN PowerWarning
                 ELSE IF r.ammonia_level > l.ammonia_max
                     THEN <<"Nivel alto de amonia", r.ammonia_level>>
                 ELSE IF r.co2_level > l.co2_max
                     THEN <<"Nivel alto de CO2", r.co2_level>>
                 ELSE IF CriticalHigh(r, l)
                     THEN <<"Temperatura critica alta", r.temperature>>
                 ELSE IF CriticalLow(r, l)
                     THEN <<"Temperatura critica baixa", r.temperature>>
                 ELSE None
            /\ (TheAction.alarm_message = None) <=>
                 ~(\/ CriticalHigh(r, l) \/ CriticalLow(r, l)
                   \/ r.co2_level > l.co2_max
                   \/ r.ammonia_level > l.ammonia_max
                   \/ ~r.power_ok)

(* Critical temperature, CO2 and ammonia all hold with the power on: the
   ammonia message is the one kept. *)
C2_Witness ==
    /\ Determined
    /\ TheReading.power_ok
    /\ CriticalHigh(TheReading, limits)
    /\ TheReading.co2_level > limits.co2_max
    /\ TheReading.ammonia_level > limits.ammonia_max
    /\ TheAction.alarm_message = <<"Nivel alto de amonia", TheReading.ammonia_level>>

WithinLimits(r, l) ==
    /\ l.humidity_min <= r.humidity /\ r.humidity <= l.humidity_max
    /\ r.co2_level <= l.co2_max
    /\ r.ammonia_level <= l.ammonia_max
    /\ r.pressure <= l.pressure_target + 5
    /\ r.power_ok

(* C3: a temperature above temp_max + 5, everything else within limits and
   the power on, gives fans at 100, nebulizers on, heaters off, the
   critical-high-temperature alarm, and curtains at 100 exactly when it is
   cooler outside (0 otherwise). *)
C3_CriticalHighTemperature ==
    (Determined /\ CriticalHigh(TheReading, limits) /\ WithinLimits(TheReading, limits)) =>
        /\ TheAction.fan_speed = 100
        /\ TheAction.nebulizers_on = TRUE
        /\ TheAction.heaters_on = FALSE
        /\ TheAction.alarm_message = <<"Temperatura critica alta", TheReading.temperature>>
        /\ TheAction.curtain_position =
               IF TheReading.external_temp < TheReading.temperature THEN 100 ELSE 0

(* Temperature 40 against temp_max 32, cooler outside. *)
C3_Witness ==
    /\ Determined
    /\ TheReading.temperature = 40
    /\ limits.temp_max = 32
    /\ TheReading.external_temp < 40
    /\ WithinLimits(TheReading, limits)
    /\ TheAction.fan_speed = 100
    /\ TheAction.curtain_position = 100

----------------------------------------------------------------------------
(* Properties of process_reading, under Spec *)

Processed == call.name = "process_reading"

(* The decision written as a table of the reading and the limits alone. *)
ActionTable(r, l) ==
    LET hot   == r.temperature > l.temp_max
        cold  == ~hot /\ r.temperature < l.temp_min
        humid == r.humidity > l.humidity_max
        dry   == ~humid /\ r.humidity < l.humidity_min
        co2   == r.co2_level > l.co2_max
        nh3   == r.ammonia_level > l.ammonia_max
        fan   == IF hot \/ co2 \/ nh3 THEN 100 ELSE IF humid THEN 80 ELSE 20
        inlet == IF nh3 THEN 100 ELSE 20
    IN  [fan_speed |-> IF r.power_ok THEN fan ELSE Min(fan, 60),
         curtain_position |->
             IF hot /\ r.external_temp < r.temperature THEN 100
             ELSE IF co2 THEN 50 ELSE 0,
         inlet_position |->
             IF r.pressure > l.pressure_target + 5
             THEN Max(inlet, Min(100, 50 + 2 * (r.pressure - l.pressure_target)))
             ELSE inlet,
         heaters_on |-> r.power_ok /\ cold,
         nebulizers_on |-> r.power_ok /\ (hot \/ dry),
         alarm_message |->
             IF ~r.power_ok THEN PowerWarning
             ELSE IF nh3 THEN <<"Nivel alto de amonia", r.ammonia_level>>
             ELSE IF co2 THEN <<"Nivel alto de CO2", r.co2_level>>
             ELSE IF CriticalHigh(r, l)
                 THEN <<"Temperatura critica alta", r.temperature>>
             ELSE IF CriticalLow(r, l)
                 THEN <<"Temperatura critica baixa", r.temperature>>
             ELSE None]

SameStateAndValue(d1, d2) ==
    \A id \in DeviceIds : d1[id].state = d2[id].state /\ d1[id].value = d2[id].value

(* C4: the action process_reading computes is a function of the reading and
   the limits alone, whatever the buffer, the previous action and the
   devices were; processing the same reading twice in a row computes the
   same action and leaves every device in the same state and value. *)
C4_Idempotent ==
    [][(call'.name = "process_reading" /\ clock' = clock + 1) =>
          /\ last_action' = Some(ActionTable(call'.reading[1], limits))
          /\ (Processed /\ call'.reading = call.reading) =>
                 /\ last_action' = last_action
                 /\ SameStateAndValue(devices', devices)]_vars

(* The same reading processed twice in a row, after a different one. *)
C4_Witness ==
    /\ Processed
    /\ Len(reading_buffer) = 3
    /\ reading_buffer[3] = reading_buffer[2]
    /\ reading_buffer[1] # reading_buffer[2]
    /\ reading_buffer[3].temperature = 40
    /\ last_action = Some(ActionTable(reading_buffer[3], limits))
    /\ devices["FAN001"].state = "partial"

----------------------------------------------------------------------------
(* Properties of the fan-out helpers, under SpecFan *)

FaultyFans == faulty \cap Range(Fans)

(* A step set_fan_speeds(50) with exactly one fan failing. *)
FanStepOneFailing ==
    /\ call'.name = "set_fan_speeds"
    /\ clock' = clock + 1
    /\ call'.value = Some(50)
    /\ Cardinality(FaultyFans) = 1

(* The list has one entry per fan, and the fans that work show partial 50. *)
FanResultsShape(results, devs) ==
    /\ Len(results) = Len(Fans)
    /\ \A i \in 1..Len(Fans) :
           /\ results[i][1] = Fans[i]
           /\ Fans[i] \notin faulty =>
                  /\ results[i][2].state = "partial"
                  /\ results[i][2].value = Some(50)
                  /\ results[i][2].error_message = None

(* C5 as stated: the entry of the failing fan shows the status the fan had
   before the call. *)
C5_PreFailureStatus ==
    [][FanStepOneFailing =>
          /\ ret'.kind = "ok"
          /\ FanResultsShape(ret'.results, devices')
          /\ \A i \in 1..Len(Fans) :
                 Fans[i] \in faulty =>
                     ret'.results[i][2] = StatusOf(Fans[i], devices[Fans[i]])]_vars

(* C5 amended: set_fan_speeds(50) with exactly one fan failing returns a
   list of length 4, the three other entries show partial 50, no exception
   escapes, and the entry of the failing fan shows its status after the
   failure: state error with the failure message, and the value and
   timestamp it had before the call. *)
C5_PostFailureStatus ==
    [][FanStepOneFailing =>
          /\ ret'.kind = "ok"
          /\ FanResultsShape(ret'.results, devices')
          /\ \A i \in 1..Len(Fans) :
                 Fans[i] \in faulty =>
                     ret'.results[i][2] =
                         [StatusOf(Fans[i], devices[Fans[i]]) EXCEPT
                              !.state = "error",
                              !.error_message = <<"fault", Fans[i]>>]]_vars

(* FAN002 fails after it ran at 100: its entry is an error status that
   still carries 100. *)
C5_Witness ==
    /\ call.name = "set_fan_speeds"
    /\ call.value = Some(50)
    /\ faulty = {"FAN002"}
    /\ ret.kind = "ok"
    /\ Len(ret.results) = 4
    /\ ret.results[1][2].state = "partial"
    /\ ret.results[2][2].state = "error"
    /\ ret.results[2][2].value = Some(100)

ClassOf(name) ==
    IF name = "set_fan_speeds" THEN Fans
    ELSE IF name = "set_curtain_positions" THEN Curtains
    ELSE IF name = "set_inlet_positions" THEN Inlets
    ELSE IF name = "set_heaters" THEN Heaters
    ELSE IF name = "set_nebulizers" THEN Nebulizers
    ELSE Alarms

HelperNames ==
    {"set_fan_speeds", "set_curtain_positions", "set_inlet_positions",
     "set_heaters", "set_nebulizers", "trigger_alarm", "clear_alarms"}

(* The arguments the helpers document: a percentage in 0..100, a state ON
   or OFF. *)
DocumentedArguments(c) ==
    /\ c.value # None => (0 <= c.value[1] /\ c.value[1] <= 100)
    /\ c.action \in {"on", "off", "partial"}
    /\ c.name \in {"set_heaters", "set_nebulizers"} => c.action # "partial"

(* C6: a helper returns one (id, status) pair per device of its class, in
   registry order, each the status of its device after the call, whichever
   devices fail: the devices that work are all commanded and no exception
   leaves the helper. *)
C6_BatchNeverAborts ==
    [][(call'.name \in HelperNames /\ clock' = clock + 1
            /\ DocumentedArguments(call')) =>
          LET ids == ClassOf(call'.name)
          IN  /\ ret'.kind = "ok"
              /\ Len(ret'.results) = Len(ids)
              /\ \A i \in 1..Len(ids) :
                     /\ ret'.results[i] =
                            <<ids[i], StatusOf(ids[i], devices'[ids[i]])>>
                     /\ ids[i] \in faulty => devices'[ids[i]].state = "error"
                     /\ ids[i] \notin faulty =>
                            /\ devices'[ids[i]].state = call'.action
                            /\ devices'[ids[i]].value = call'.value]_vars

(* Every nebulizer fails: the batch still returns one entry per device. *)
C6_Witness ==
    /\ call.name = "set_nebulizers"
    /\ call.action = "on"
    /\ faulty = Range(Nebulizers)
    /\ ret.kind = "ok"
    /\ Len(ret.results) = 2
    /\ ret.results[1][2].state = "error"
    /\ ret.results[2][2].state = "error"

----------------------------------------------------------------------------
(* Properties of single commands, under SpecCmd *)

(* A step of execute_command on the controller with an id the registry does
   not hold, or on an actuator with a command for another device. *)
Misaddressed(c) ==
    \/ c.name = "controller.execute_command" /\ c.device_id \notin DeviceIds
    \/ c.name = "actuator.execute_command" /\ c.device_id # c.target

(* A step of execute_command that reaches the type-specific step of the
   addressed actuator. *)
Addressed(c) ==
    \/ c.name = "controller.execute_command" /\ c.device_id \in DeviceIds
    \/ c.name = "actuator.execute_command" /\ c.device_id = c.target

(* C7: a misaddressed command raises a device error (not found on the
   controller, mismatch on the actuator) and leaves the state, value, error
   message and timestamp of every actuator unchanged. *)
C7_MisaddressedMutatesNothing ==
    [][(clock' = clock + 1 /\ Misaddressed(call')) =>
          /\ ret'.kind = "DeviceError"
          /\ ret'.error =
                 IF call'.name = "controller.execute_command"
                 THEN <<"not_found", call'.device_id>>
                 ELSE <<"id_mismatch", call'.device_id>>
          /\ devices' = devices]_vars

(* A command for the fan handed to the heater, which had been switched on:
   the heater is still on. *)
C7_Witness ==
    /\ call.name = "actuator.execute_command"
    /\ call.target = "HTR001"
    /\ call.device_id = "FAN001"
    /\ ret.kind = "DeviceError"
    /\ devices["HTR001"].state = "on"
    /\ devices["HTR001"].error_message = None

(* The commands the type-specific step rejects, as the claim lists them. *)
Rejected(id, action, value) ==
    IF IsVariable(id)
    THEN \/ action = "partial" /\ value = None
         \/ value # None /\ ~(0 <= value[1] /\ value[1] <= 100)
    ELSE \/ action = "partial"
         \/ value # None

(* C8 as stated: a rejected command raises a device error and leaves the
   actuator in state error with the message recorded; an accepted command
   sets state and value to the command's, clears the error message, returns
   the new status and so takes the actuator out of the error state. *)
C8_RejectedOrApplied ==
    [][(clock' = clock + 1 /\ Addressed(call')) =>
          LET id  == call'.device_id
              dev == devices'[id]
          IN  IF Rejected(id, call'.action, call'.value)
              THEN /\ ret'.kind = "DeviceError"
                   /\ dev.state = "error"
                   /\ dev.error_message # None
                   /\ dev.error_message = ret'.error
              ELSE /\ dev.state = call'.action
                   /\ dev.value = call'.value
                   /\ dev.error_message = None
                   /\ ret' = Returned(StatusOf(id, dev))
                   /\ dev.state # "error"]_vars

(* C9 as stated: whatever commands were executed, the status of every
   actuator can be read, and it has a message when the state is error and a
   value in [0,100] when the state is partial. *)
C9_StatusAlwaysReadable ==
    (call.name # "none" /\ ValidCommand(call.action, call.value)) =>
        \A id \in DeviceIds :
            /\ ~StatusRaises(devices[id])
            /\ devices[id].state = "error" => devices[id].error_message # None
            /\ devices[id].state = "partial" =>
                   /\ devices[id].value # None
                   /\ 0 <= devices[id].value[1] /\ devices[id].value[1] <= 100

(* C10 as stated: in every snapshot the value is present iff the state is
   partial or the device is variable-capable, and the error message is
   present iff the state is error. *)
C10_ValueIffVariable ==
    \A id \in DeviceIds :
        ~StatusRaises(devices[id]) =>
            /\ (devices[id].value # None) <=>
                   (devices[id].state = "partial" \/ IsVariable(id))
            /\ (devices[id].error_message # None) <=> (devices[id].state = "error")

(* C10 amended: in every snapshot an actuator reports, a value is present
   only if the device is variable-capable and always if the state is
   partial, and the error message is present iff the state is error. *)
C10_ValueOnlyIfVariable ==
    \A id \in DeviceIds :
        ~StatusRaises(devices[id]) =>
            /\ (devices[id].value # None) => IsVariable(id)
            /\ (devices[id].state = "partial") => (devices[id].value # None)
            /\ (devices[id].error_message # None) <=> (devices[id].state = "error")

(* The fan runs at 50 and the heater is in error after a rejected command. *)
C10_Witness ==
    /\ devices["FAN001"].state = "partial"
    /\ devices["FAN001"].value = Some(50)
    /\ devices["HTR001"].state = "error"
    /\ devices["HTR001"].error_message # None
    /\ devices["HTR001"].value = None
    /\ devices["FAN002"].value = None

----------------------------------------------------------------------------
(* Properties of the control loop: alarms and last action, under Spec *)

(* What the alarm devices show for the action a. *)
AlarmsShow(a) ==
    \A i \in DOMAIN Alarms :
        LET d == devices[Alarms[i]]
        IN  IF a.alarm_message # None
            THEN d.state = "on" /\ d.message = a.alarm_message
            ELSE d.state = "off" /\ d.message = None

(* C12: after process_reading(r) the alarm devices show the action of r
   alone: all on with the action's alarm message when it has one, all off
   with no message when it has none, whatever earlier readings raised. *)
C12_AlarmsFollowLatestReading ==
    Processed => AlarmsShow(DetermineActions(TheReading, limits))

(* A reading without alarm processed right after one that raised an alarm:
   the alarms are off again. *)
C12_Witness ==
    /\ Processed
    /\ Len(reading_buffer) >= 2
    /\ DetermineActions(reading_buffer[Len(reading_buffer) - 1],
                        limits).alarm_message # None
    /\ DetermineActions(TheReading, limits).alarm_message = None
    /\ \A i \in DOMAIN Alarms : devices[Alarms[i]].state = "off"

(* C13: get_last_action() returns None until the first process_reading and
   from then on the action computed for the most recent reading. *)
C13_LastActionIsLatest ==
    IF Processed
    THEN GetLastAction = Some(DetermineActions(TheReading, limits))
    ELSE GetLastAction = None

(* Two readings with different actions processed: the second one's action
   is the last action. *)
C13_Witness ==
    /\ Processed
    /\ Len(reading_buffer) = 2
    /\ DetermineActions(reading_buffer[1], limits)
           # DetermineActions(reading_buffer[2], limits)
    /\ reading_buffer[2] = TheReading
    /\ GetLastAction = Some(DetermineActions(reading_buffer[2], limits))

----------------------------------------------------------------------------
(* core/menu.py: MenuManager._parameters_menu, run by the main thread on the
   limits object the environment controller reads, while the reader thread
   processes readings *)

(* The parameters updates one run makes. *)
MaxUpdates == 1

(* The fields of the limits in the order _parameters_menu assigns them. *)
LimitFields ==
    <<"temp_min", "temp_max", "humidity_min", "humidity_max", "co2_max",
      "ammonia_max", "pressure_target">>

(* float(input(...) or default): the empty input takes the default. *)
OrDefault(input, default) == IF input = None THEN default ELSE input[1]

(* The values _parameters_menu parses from the input, given the limits l the
   prompts read. *)
ParseInputs(l, in) ==
    LET temp_target     == OrDefault(in.temp_target, (l.temp_min + l.temp_max) \div 2)
        temp_max        == OrDefault(in.temp_max, temp_target + 5)
        temp_min        == OrDefault(in.temp_min, temp_target - 5)
        humidity_target == OrDefault(in.humidity_target,
                                     (l.humidity_min + l.humidity_max) \div 2)
        humidity_max    == OrDefault(in.humidity_max, humidity_target + 10)
        humidity_min    == OrDefault(in.humidity_min, humidity_target - 10)
    IN  [temp_min |-> temp_min, temp_max |-> temp_max,
         humidity_min |-> humidity_min, humidity_max |-> humidity_max,
         co2_max |-> OrDefault(in.co2_max, l.co2_max),
         ammonia_max |-> OrDefault(in.ammonia_max, l.ammonia_max),
         pressure_target |-> OrDefault(in.pressure_target, l.pressure_target)]

(* The default targets are means; the inputs enumerated keep them whole. *)
WholeTargets(l, in) ==
    /\ in.temp_target = None => (l.temp_min + l.temp_max) % 2 = 0
    /\ in.humidity_target = None => (l.humidity_min + l.humidity_max) % 2 = 0

(* What the operator types: nothing (the default), or a number. *)
MenuInputs ==
    [temp_target : {None}, temp_max : {None, Some(8)}, temp_min : {None, Some(5)},
     humidity_target : {None}, humidity_max : {None}, humidity_min : {None},
     co2_max : {None, Some(6000)}, ammonia_max : {None}, pressure_target : {None}]

(* _parameters_menu up to the first assignment: every input parses. *)
MenuInput(in) ==
    /\ menu.pc = 0
    /\ menu.updates < MaxUpdates
    /\ WholeTargets(limits, in)
    /\ menu' = [menu EXCEPT !.pc = 1, !.old = Some(limits),
                            !.new = Some(ParseInputs(limits, in)),
                            !.updates = @ + 1]
    /\ call' = [NoCall EXCEPT !.name = "_parameters_menu"]
    /\ ret' = NoRet
    /\ UNCHANGED <<devices, faulty, clock, limits, reading_buffer, last_action,
                   reader, system,
                   storage, custom_alerts>>

(* _parameters_menu with an input float() rejects: ValueError is caught
   before any assignment. *)
MenuInputRejected ==
    /\ menu.pc = 0
    /\ menu.updates < MaxUpdates
    /\ menu' = [menu EXCEPT !.updates = @ + 1]
    /\ call' = [NoCall EXCEPT !.name = "_parameters_menu"]
    /\ ret' = [NoRet EXCEPT !.kind = "ok", !.error = <<"ValueError">>]
    /\ UNCHANGED <<devices, faulty, clock, limits, reading_buffer, last_action,
                   reader, system,
                   storage, custom_alerts>>

(* Mutant of MenuAssign: the fields are assigned from the last to the
   first. *)
MenuAssignBackwards ==
    LET f == LimitFields[8 - menu.pc]
    IN  /\ menu.pc \in 1 .. 7
        /\ limits' = [limits EXCEPT ![f] = menu.new[1][f]]
        /\ menu' = [menu EXCEPT !.pc = @ + 1]
        /\ UNCHANGED <<devices, faulty, clock, reading_buffer, last_action, call,
                       ret, reader, system,
                   storage, custom_alerts>>

(* One assignment `limits.<field> = <value>` of _parameters_menu. *)
MenuAssign ==
    LET f == LimitFields[menu.pc]
    IN  /\ menu.pc \in 1 .. 7
        /\ limits' = [limits EXCEPT ![f] = menu.new[1][f]]
        /\ menu' = [menu EXCEPT !.pc = @ + 1]
        /\ UNCHANGED <<devices, faulty, clock, reading_buffer, last_action, call,
                       ret, reader, system,
                   storage, custom_alerts>>

(* file_storage.save_config(self.config): writes the limits as they are, or
   raises, which _parameters_menu catches. *)
MenuSave(written) ==
    /\ menu.pc = 8
    /\ menu' = [menu EXCEPT !.pc = 0,
                            !.saved = IF written THEN Some(limits) ELSE @]
    /\ ret' = IF written THEN [NoRet EXCEPT !.kind = "ok"]
              ELSE [NoRet EXCEPT !.kind = "ok", !.error = <<"Exception">>]
    /\ UNCHANGED <<devices, faulty, clock, limits, reading_buffer, last_action,
                   call, reader, system,
                   storage, custom_alerts>>

(* The readings the reader thread delivers meanwhile. *)
MenuReadings ==
    {r \in {Reading(t, 20, 60, 1000, 10, 25, TRUE) : t \in {10, 25}} :
        ValidReading(r)}

InitMenu ==
    /\ InitSystem
    /\ faulty = {}
    /\ limits = DefaultLimits
    /\ call = NoCall

NextMenu ==
    \/ \E in \in MenuInputs : MenuInput(in)
    \/ MenuInputRejected
    \/ MenuAssign
    \/ \E written \in BOOLEAN : MenuSave(written)
    \/ \E r \in MenuReadings : ProcessReading(r)

SpecMenu == InitMenu /\ [][NextMenu]_vars

----------------------------------------------------------------------------
(* Properties of the parameters menu, under SpecMenu *)

(* C11: the limits the controller reads are valid limits at construction
   and after every update through the parameters menu: temperatures ordered
   within -10..50, humidities ordered within 0..100, CO2 maximum within
   0..5000, ammonia maximum within 0..100, pressure target within -50..50. *)
C11_LimitsAlwaysValid == menu.pc = 0 => ValidLimits(limits)

(* The limits while _parameters_menu is at position pc: the fields before it
   hold the new values, the others the old ones. *)
MixedLimits(old, new, pc) ==
    [f \in DOMAIN old |->
        IF \E i \in 1 .. 7 : i < pc /\ LimitFields[i] = f THEN new[f] ELSE old[f]]

(* C17: there is no lock between the menu's update and process_reading: a
   reading processed while the update is between two assignments is
   evaluated against the limits as they are then, the fields already
   assigned new and the others old. *)
C17_TornLimits ==
    [][(call'.name = "process_reading" /\ clock' = clock + 1 /\ menu.pc \in 1 .. 8) =>
          /\ limits = MixedLimits(menu.old[1], menu.new[1], menu.pc)
          /\ last_action' = Some(DetermineActions(call'.reading[1],
                                     MixedLimits(menu.old[1], menu.new[1], menu.pc)))
      ]_vars

(* A reading processed after temp_min was assigned and before temp_max:
   new temp_min with old temp_max, and an action that neither the old nor
   the new limits give. *)
C17_Witness ==
    /\ Processed
    /\ menu.pc = 2
    /\ limits.temp_min = menu.new[1].temp_min
    /\ limits.temp_min # menu.old[1].temp_min
    /\ limits.temp_max = menu.old[1].temp_max
    /\ limits.temp_max # menu.new[1].temp_max
    /\ GetLastAction = Some(DetermineActions(TheReading, limits))
    /\ GetLastAction # Some(DetermineActions(TheReading, menu.old[1]))
    /\ GetLastAction # Some(DetermineActions(TheReading, menu.new[1]))

----------------------------------------------------------------------------
(* main.py: AviaryControlSystem: construction, _handle_reading and
   configure_oracle.  An OracleStorage is its credentials and whether its
   connection is open; what the database answers is an input of each call. *)

OracleStorage(credentials, connected) ==
    Some([credentials |-> credentials, connected |-> connected])

(* db/config.py: the default credentials. *)
DefaultCredentials == "config.username/config.password@config.dsn"

(* OracleStorage.get_latest_readings(1), data being what the query on
   sensor_readings does ("some" rows, "empty", "raise"): the rows found; on
   an empty result and on any exception one generated mock reading. *)
GetLatestReadings(data) ==
    IF data = "some" THEN <<"row">> ELSE <<"mock">>

(* AviaryControlSystem.__init__(use_oracle, force_mock_data): connect is what
   connect() and test_connection() do ("ok", "bad" for a failed test,
   "raise"), data what the query of get_latest_readings(1) does.  The flag
   set while checking the schema is overwritten by the data check, which
   sets it iff no reading came back. *)
NewSystem(use_oracle, force_mock_data, connect, data) ==
    IF force_mock_data \/ ~use_oracle \/ connect # "ok"
    THEN SystemWithoutOracle
    ELSE [oracle_storage |-> OracleStorage(DefaultCredentials, TRUE),
          using_mock_data |-> GetLatestReadings(data) = <<>>, stores |-> <<>>]

(* `if self.oracle_storage and not self.using_mock_data` *)
StoreEnabled(sys) == sys.oracle_storage # None /\ ~sys.using_mock_data

(* Mutant of TryStore: a failed store leaves the mock-data flag as it was. *)
TryStoreFlagKept(sys, name, fails) ==
    IF StoreEnabled(sys)
    THEN [sys EXCEPT !.stores = Append(@, [name |-> name, ok |-> name \notin fails])]
    ELSE sys

(* One guarded Oracle store of _handle_reading: attempted when enabled; a
   store that raises is caught and sets using_mock_data. *)
TryStore(sys, name, fails) ==
    IF StoreEnabled(sys)
    THEN [sys EXCEPT !.stores = Append(@, [name |-> name, ok |-> name \notin fails]),
                     !.using_mock_data = name \in fails]
    ELSE sys

(* `for device_id, status in device_status`, from the i-th result on. *)
RECURSIVE StoreStatuses(_, _, _, _)
StoreStatuses(sys, results, i, fails) ==
    IF i > Len(results) THEN sys
    ELSE CHOOSE end \in {StoreStatuses(next, results, i + 1, fails) :
                            next \in {TryStore(sys, results[i][1], fails)}} : TRUE

(* Mutant of HandleReading: the store of the reading sits inside the try
   block of the processing, so its failure skips the processing. *)
HandleReadingStoreInsideTry(r, fails) ==
    LET buf1 == AddReading(reading_buffer, r)
        sys1 == TryStore([system EXCEPT !.stores = <<>>], "reading", fails)
        a    == DetermineActions(r, limits)
        After(out) ==
            LET sys2 == StoreStatuses(sys1, out.results, 1, fails)
                sys3 == IF a.alarm_message # None THEN TryStore(sys2, "alarm", fails)
                        ELSE sys2
            IN  IF StoreEnabled(system) /\ "reading" \in fails
                THEN [buffer |-> buf1, last_action |-> last_action, devs |-> devices,
                      system |-> sys1,
                      ret |-> [NoRet EXCEPT !.kind = "ok",
                                            !.error = <<"store_reading">>]]
                ELSE [buffer |-> AddReading(buf1, r), last_action |-> Some(a),
                      devs |-> out.devs,
                      system |-> IF out.raised = "" THEN sys3 ELSE sys1,
                      ret |-> [NoRet EXCEPT !.kind = "ok", !.action = Some(a),
                                            !.results = out.results,
                                            !.error = IF out.raised = "" THEN None
                                                      ELSE <<out.raised>>]]
    IN  CHOOSE h \in {After(out) : out \in {ApplyAction(a, devices, clock + 1)}} :
            TRUE

(* _handle_reading with a buffer that only one of the two callers fills. *)
HandleReadingOneAppend(r, fails) ==
    LET buf1 == AddReading(reading_buffer, r)
        sys1 == TryStore([system EXCEPT !.stores = <<>>], "reading", fails)
        a    == DetermineActions(r, limits)
        After(out) ==
            LET sys2 == StoreStatuses(sys1, out.results, 1, fails)
                sys3 == IF a.alarm_message # None THEN TryStore(sys2, "alarm", fails)
                        ELSE sys2
            IN  [buffer |-> buf1, last_action |-> Some(a),
                 devs |-> out.devs,
                 system |-> IF out.raised = "" THEN sys3 ELSE sys1,
                 ret |-> [NoRet EXCEPT !.kind = "ok", !.action = Some(a),
                                       !.results = out.results,
                                       !.error = IF out.raised = "" THEN None
                                                 ELSE <<out.raised>>]]
    IN  CHOOSE h \in {After(out) : out \in {ApplyAction(a, devices, clock + 1)}} :
            TRUE

(* AviaryControlSystem._handle_reading(reading), fails being the stores the
   database rejects if attempted: buffer, store of the reading,
   process_reading (out is what its device commands give), stores of the
   device statuses, store of the alarm.  It returns None; ret keeps the
   action and statuses it worked with and the error its outer except block
   logged. *)
HandleReading(r, fails) ==
    LET buf1 == AddReading(reading_buffer, r)
        sys1 == TryStore([system EXCEPT !.stores = <<>>], "reading", fails)
        a    == DetermineActions(r, limits)
        After(out) ==
            LET sys2 == StoreStatuses(sys1, out.results, 1, fails)
                sys3 == IF a.alarm_message # None THEN TryStore(sys2, "alarm", fails)
                        ELSE sys2
            IN  [buffer |-> AddReading(buf1, r), last_action |-> Some(a),
                 devs |-> out.devs,
                 system |-> IF out.raised = "" THEN sys3 ELSE sys1,
                 ret |-> [NoRet EXCEPT !.kind = "ok", !.action = Some(a),
                                       !.results = out.results,
                                       !.error = IF out.raised = "" THEN None
                                                 ELSE <<out.raised>>]]
    IN  CHOOSE h \in {After(out) : out \in {ApplyAction(a, devices, clock + 1)}} :
            TRUE

HandleReadingCall(r, failing) ==
    \E h \in {HandleReading(r, Range(failing))} :
        /\ clock < MaxReadings
        /\ clock' = clock + 1
        /\ call' = [NoCall EXCEPT !.name = "_handle_reading", !.reading = Some(r),
                                  !.args = failing]
        /\ reading_buffer' = h.buffer
        /\ last_action' = h.last_action
        /\ devices' = h.devs
        /\ system' = h.system
        /\ ret' = h.ret
        /\ UNCHANGED <<faulty, limits, menu, reader,
                   storage, custom_alerts>>

(* configure_oracle: max_retries *)
MaxRetries == 3

(* The retry loop of configure_oracle: TRUE iff one of the first MaxRetries
   attempts connects and passes test_connection. *)
ConnectionOk(attempts) ==
    \E i \in 1 .. MaxRetries : i <= Len(attempts) /\ attempts[i] = "ok"

(* The connection attempts the retry loop of configure_oracle makes: it stops
   at the first attempt that connects and passes the test, and after
   MaxRetries attempts otherwise. *)
ConnectionAttempts(attempts) ==
    IF ConnectionOk(attempts)
    THEN SubSeq(attempts, 1,
                CHOOSE i \in 1 .. MaxRetries :
                    /\ i <= Len(attempts) /\ attempts[i] = "ok"
                    /\ \A j \in 1 .. i - 1 : attempts[j] # "ok")
    ELSE SubSeq(attempts, 1, Min(MaxRetries, Len(attempts)))

(* configure_oracle without the early return of its first statement. *)
ConfigureOracleNoEarlyReturn(sys, credentials, attempts, schema) ==
    IF schema = "raise"
    THEN [system |-> [sys EXCEPT !.oracle_storage = None, !.using_mock_data = TRUE],
          returned |-> FALSE, attempted |-> ConnectionAttempts(attempts)]
    ELSE IF ~ConnectionOk(attempts)
    THEN [system |-> [sys EXCEPT !.oracle_storage = OracleStorage(credentials, FALSE),
                                 !.using_mock_data = TRUE],
          returned |-> FALSE, attempted |-> ConnectionAttempts(attempts)]
    ELSE [system |-> [sys EXCEPT !.oracle_storage = OracleStorage(credentials, TRUE),
                                 !.using_mock_data = schema \notin {"complete", "created"}],
          returned |-> schema \in {"complete", "created"},
          attempted |-> ConnectionAttempts(attempts)]

(* AviaryControlSystem.configure_oracle(username, password, host) on the
   system sys.  attempts lists what each connection attempt does ("ok",
   "bad" for a failed test, "raise"); schema is what the schema check finds:
   "complete", "created" (incomplete, initialize_schema succeeds and the
   second check is complete), "incomplete" (still incomplete after it),
   "init_failed" (initialize_schema returns False or raises), "raise" (an
   exception reaches the outer except block).  attempted lists the
   connection attempts the call made. *)
ConfigureOracle(sys, credentials, attempts, schema) ==
    IF sys.using_mock_data /\ sys.oracle_storage = None
    THEN [system |-> sys, returned |-> FALSE, attempted |-> <<>>]
    ELSE IF schema = "raise"
    THEN [system |-> [sys EXCEPT !.oracle_storage = None, !.using_mock_data = TRUE],
          returned |-> FALSE, attempted |-> ConnectionAttempts(attempts)]
    ELSE IF ~ConnectionOk(attempts)
    THEN [system |-> [sys EXCEPT !.oracle_storage = OracleStorage(credentials, FALSE),
                                 !.using_mock_data = TRUE],
          returned |-> FALSE, attempted |-> ConnectionAttempts(attempts)]
    ELSE [system |-> [sys EXCEPT !.oracle_storage = OracleStorage(credentials, TRUE),
                                 !.using_mock_data = schema \notin {"complete", "created"}],
          returned |-> schema \in {"complete", "created"},
          attempted |-> ConnectionAttempts(attempts)]

(* ret.results lists the connection attempts the call made. *)
ConfigureOracleCall(credentials, attempts, schema) ==
    LET c == ConfigureOracle(system, credentials, attempts, schema)
    IN  /\ call' = [NoCall EXCEPT !.name = "configure_oracle", !.target = credentials,
                                  !.action = schema, !.args = attempts]
        /\ system' = c.system
        /\ ret' = [NoRet EXCEPT !.kind = IF c.returned THEN "True" ELSE "False",
                                !.results = c.attempted]
        /\ UNCHANGED <<devices, faulty, clock, limits, reading_buffer, last_action,
                       menu, reader,
                   storage, custom_alerts>>

(* What the database does in the runs explored. *)
Credentials == {"test_user/test_password@test_dsn"}

Attempts ==
    {<<"ok">>, <<"raise", "ok">>, <<"bad", "bad", "bad">>,
     <<"raise", "raise", "raise", "ok">>}

Schemas == {"complete", "created", "incomplete", "init_failed", "raise"}

FailingStores == {<<>>, <<"reading">>, <<"FAN002">>, <<"ALM002", "alarm">>, <<"alarm">>}

SystemReadings ==
    {r \in {Reading(t, 20, 60, 1000, 10, 25, TRUE) : t \in {25, 40}} :
        ValidReading(r)}

InitOracle ==
    /\ devices = [id \in DeviceIds |-> NewActuator(id)]
    /\ clock = 0
    /\ reading_buffer = <<>>
    /\ last_action = None
    /\ ret = NoRet
    /\ menu = IdleMenu
    /\ reader = NewSensorReader
    /\ faulty = {}
    /\ limits = DefaultLimits
    /\ call = NoCall
    /\ storage = NewOracleStorage
    /\ custom_alerts = <<>>
    /\ system \in {NewSystem(use_oracle, force_mock_data, connect, data) :
                      use_oracle \in BOOLEAN, force_mock_data \in BOOLEAN,
                      connect \in {"ok", "bad", "raise"},
                      data \in {"some", "empty", "raise"}}

NextOracle ==
    \/ \E r \in SystemReadings, failing \in FailingStores :
           HandleReadingCall(r, failing)
    \/ \E credentials \in Credentials, attempts \in Attempts, schema \in Schemas :
           ConfigureOracleCall(credentials, attempts, schema)

SpecOracle == InitOracle /\ [][NextOracle]_vars

----------------------------------------------------------------------------
(* Properties of _handle_reading and configure_oracle, under SpecOracle *)

Handled == call.name = "_handle_reading"

(* A step that is one call of _handle_reading. *)
HandleStep == call'.name = "_handle_reading" /\ clock' = clock + 1

FailedStores(sys) == {i \in DOMAIN sys.stores : ~sys.stores[i].ok}

(* C18: a failing Oracle store is caught inside _handle_reading: whatever
   stores fail, in this call or an earlier one, the call returns normally,
   the environment controller processes the reading and the devices are
   commanded for its action. *)
C18_StoreFailureContained ==
    [][HandleStep =>
          LET r == call'.reading[1]
              a == DetermineActions(r, limits)
          IN  /\ ret'.kind = "ok"
              /\ ret'.error = None
              /\ last_action' = Some(a)
              /\ devices' = ApplyAction(a, devices, clock + 1).devs
              /\ Len(ret'.results) = Cardinality(DeviceIds)]_vars

(* The store of the reading failed, and the hot reading was processed all the
   same: fans at full speed, alarms on. *)
C18_Witness ==
    /\ Handled
    /\ Len(system.stores) = 1
    /\ system.stores[1] = [name |-> "reading", ok |-> FALSE]
    /\ TheReading.temperature = 40
    /\ last_action = Some(DetermineActions(TheReading, limits))
    /\ devices["FAN001"].value = Some(100)
    /\ devices["ALM001"].state = "on"

(* C19: _handle_reading attempts Oracle stores only while using_mock_data
   is false: none when the flag is set, storage or not; a failed store sets
   the flag and is the last store of that call; and the flag, once set,
   stays set until a configure_oracle that returns True. *)
C19_NoStoreOnMockData ==
    [][/\ HandleStep =>
            /\ system.using_mock_data => system'.stores = <<>>
            /\ \A i \in FailedStores(system') : i = Len(system'.stores)
            /\ FailedStores(system') # {} => system'.using_mock_data
       /\ (system.using_mock_data /\ ~system'.using_mock_data) =>
            (call'.name = "configure_oracle" /\ ret'.kind = "True")]_vars

(* The status store of the second fan failed after two successful stores:
   nothing was stored after it, and the flag is set with the storage still
   there. *)
C19_Witness ==
    /\ Handled
    /\ Len(system.stores) = 3
    /\ system.stores[3] = [name |-> "FAN002", ok |-> FALSE]
    /\ system.using_mock_data
    /\ system.oracle_storage # None
    /\ Len(ret.results) = Cardinality(DeviceIds)

(* C20: on a system built with use_oracle = False, configure_oracle with a
   connection that passes its test (at the first attempt or at a retry) and
   a complete schema returns True, leaves oracle_storage set to a storage
   with the given credentials and clears using_mock_data. *)
C20_ConfigureOracleSucceeds ==
    [][(/\ call'.name = "configure_oracle"
        /\ system.oracle_storage = None /\ system.using_mock_data
        /\ ConnectionOk(call'.args)
        /\ call'.action = "complete") =>
          /\ ret'.kind = "True"
          /\ system'.oracle_storage = OracleStorage(call'.target, TRUE)
          /\ ~system'.using_mock_data]_vars

----------------------------------------------------------------------------
(* sensors/reader.py: SensorReader.start, stop and the poll thread running
   _reading_loop with the system's _handle_reading as callback *)

(* The calls of start and the polls one run makes. *)
MaxStarts == 3

MaxPolls == 2

(* Thread.is_alive(): started and not yet finished. *)
IsAlive(rd, t) == rd.pc[t] \notin {"new", "done"}

AliveThreads(rd) == {t \in ThreadIds : IsAlive(rd, t)}

(* The thread object a start creates: one never created before. *)
NewThread(rd) == CHOOSE t \in ThreadIds : rd.pc[t] = "new"

(* Mutant of Start: no check of a running thread. *)
StartUnchecked ==
    /\ reader.caller = "idle"
    /\ reader.starts < MaxStarts
    /\ \E t \in ThreadIds : reader.pc[t] = "new"
    /\ reader' = [reader EXCEPT !.starts = @ + 1,
                                !.stop_event = FALSE,
                                !.pc[NewThread(reader)] = "head",
                                !.reader_thread = Some(NewThread(reader))]
    /\ call' = [NoCall EXCEPT !.name = "start"]
    /\ ret' = [NoRet EXCEPT !.kind = "ok"]
    /\ UNCHANGED <<devices, faulty, clock, limits, reading_buffer, last_action,
                   menu, system,
                   storage, custom_alerts>>

(* SensorReader.start() *)
Start ==
    /\ reader.caller = "idle"
    /\ reader.starts < MaxStarts
    /\ IF reader.reader_thread # None /\ IsAlive(reader, reader.reader_thread[1])
       THEN reader' = [reader EXCEPT !.starts = @ + 1]
       ELSE /\ \E t \in ThreadIds : reader.pc[t] = "new"
            /\ reader' = [reader EXCEPT !.starts = @ + 1,
                                        !.stop_event = FALSE,
                                        !.pc[NewThread(reader)] = "head",
                                        !.reader_thread = Some(NewThread(reader))]
    /\ call' = [NoCall EXCEPT !.name = "start"]
    /\ ret' = [NoRet EXCEPT !.kind = "ok"]
    /\ UNCHANGED <<devices, faulty, clock, limits, reading_buffer, last_action,
                   menu, system,
                   storage, custom_alerts>>

(* SensorReader.stop() up to the join: sets the stop event; without a thread
   it returns at once. *)
StopBegin ==
    /\ reader.caller = "idle"
    /\ reader' = [reader EXCEPT !.stop_event = TRUE,
                                !.caller = IF reader.reader_thread = None
                                           THEN "idle" ELSE "joining"]
    /\ call' = [NoCall EXCEPT !.name = "stop"]
    /\ ret' = IF reader.reader_thread = None THEN [NoRet EXCEPT !.kind = "ok"]
              ELSE NoRet
    /\ UNCHANGED <<devices, faulty, clock, limits, reading_buffer, last_action,
                   menu, system,
                   storage, custom_alerts>>

(* Mutant of StopJoin: stop returns without waiting for the thread. *)
StopWithoutJoin ==
    /\ reader.caller = "joining"
    /\ reader' = [reader EXCEPT !.reader_thread = None, !.caller = "idle"]
    /\ ret' = [NoRet EXCEPT !.kind = "ok"]
    /\ UNCHANGED <<devices, faulty, clock, limits, reading_buffer, last_action,
                   call, menu, system,
                   storage, custom_alerts>>

(* SensorReader.stop(): join() returns once the thread has finished; the
   handle is dropped and stop returns. *)
StopJoin ==
    /\ reader.caller = "joining"
    /\ ~IsAlive(reader, reader.reader_thread[1])
    /\ reader' = [reader EXCEPT !.reader_thread = None, !.caller = "idle"]
    /\ ret' = [NoRet EXCEPT !.kind = "ok"]
    /\ UNCHANGED <<devices, faulty, clock, limits, reading_buffer, last_action,
                   call, menu, system,
                   storage, custom_alerts>>

(* _reading_loop: `while not self._stop_event.is_set()` *)
LoopHead(t) ==
    /\ reader.pc[t] = "head"
    /\ reader.stop_event \/ reader.polls < MaxPolls
    /\ reader' = [reader EXCEPT !.pc[t] = IF reader.stop_event THEN "done"
                                           ELSE "poll"]
    /\ UNCHANGED <<devices, faulty, clock, limits, reading_buffer, last_action,
                   call, ret, menu, system,
                   storage, custom_alerts>>

(* _reading_loop: read_sensor_data() gives a complete reading, which is
   queued, or None, or raises; the last two are logged. *)
Poll(t, outcome, r) ==
    /\ reader.pc[t] = "poll"
    /\ reader' =
          IF outcome = "reading"
          THEN [reader EXCEPT !.polls = @ + 1, !.complete = @ + 1,
                              !.reading_queue = Append(@, r),
                              !.local[t] = Some(r), !.pc[t] = "callback"]
          ELSE [reader EXCEPT !.polls = @ + 1, !.last = outcome, !.pc[t] = "wait"]
    /\ UNCHANGED <<devices, faulty, clock, limits, reading_buffer, last_action,
                   call, ret, menu, system,
                   storage, custom_alerts>>

(* Mutant of Callback: an exception of the callback leaves the loop. *)
CallbackUncaught(t, raises) ==
    /\ reader.pc[t] = "callback"
    /\ reader' = [reader EXCEPT !.invoked = @ + 1,
                                !.last = IF raises THEN "callback_error"
                                         ELSE "reading",
                                !.pc[t] = IF raises THEN "done" ELSE "wait"]
    /\ IF raises
       THEN UNCHANGED <<devices, clock, reading_buffer, last_action, system>>
       ELSE \E h \in {HandleReading(reader.local[t][1], {})} :
                /\ clock' = clock + 1
                /\ reading_buffer' = h.buffer
                /\ last_action' = h.last_action
                /\ devices' = h.devs
                /\ system' = h.system
    /\ UNCHANGED <<faulty, limits, call, ret, menu,
                   storage, custom_alerts>>

(* _reading_loop: self.callback(reading) inside try/except Exception.  The
   callback is _handle_reading, or one that raises, which is logged. *)
Callback(t, raises) ==
    /\ reader.pc[t] = "callback"
    /\ reader' = [reader EXCEPT !.invoked = @ + 1,
                                !.last = IF raises THEN "callback_error"
                                         ELSE "reading",
                                !.pc[t] = "wait"]
    /\ IF raises
       THEN UNCHANGED <<devices, clock, reading_buffer, last_action, system>>
       ELSE \E h \in {HandleReading(reader.local[t][1], {})} :
                /\ clock' = clock + 1
                /\ reading_buffer' = h.buffer
                /\ last_action' = h.last_action
                /\ devices' = h.devs
                /\ system' = h.system
    /\ UNCHANGED <<faulty, limits, call, ret, menu,
                   storage, custom_alerts>>

(* _reading_loop: self._stop_event.wait(self.reading_interval) returns when
   the event is set or the interval is over. *)
Wait(t) ==
    /\ reader.pc[t] = "wait"
    /\ reader' = [reader EXCEPT !.pc[t] = "head", !.local[t] = None]
    /\ UNCHANGED <<devices, faulty, clock, limits, reading_buffer, last_action,
                   call, ret, menu, system,
                   storage, custom_alerts>>

PollOutcomes == {"reading", "no_data", "poll_error"}

ReaderReadings ==
    {r \in {Reading(t, 20, 60, 1000, 10, 25, TRUE) : t \in {25, 40}} :
        ValidReading(r)}

ThreadStep(t) ==
    \/ LoopHead(t)
    \/ \E outcome \in PollOutcomes, r \in ReaderReadings : Poll(t, outcome, r)
    \/ \E raises \in BOOLEAN : Callback(t, raises)
    \/ Wait(t)

InitReader ==
    /\ InitSystem
    /\ faulty = {}
    /\ limits = DefaultLimits
    /\ call = NoCall

NextReader ==
    \/ Start
    \/ StopBegin
    \/ StopJoin
    \/ \E t \in ThreadIds : ThreadStep(t)

SpecReader == InitReader /\ [][NextReader]_vars

(* Every started thread is scheduled again and again, its poll and its
   callback come to an end, and join returns once the thread has finished.
   A thread leaves the position "callback" by either outcome of the
   callback, so fairness of the raising one is fairness of the step. *)
SpecReaderFair ==
    /\ InitReader
    /\ [][NextReader]_vars
    /\ \A t \in ThreadIds :
          /\ WF_vars(LoopHead(t))
          /\ WF_vars(\E outcome \in PollOutcomes, r \in ReaderReadings :
                        Poll(t, outcome, r))
          /\ WF_vars(Callback(t, TRUE))
          /\ WF_vars(Wait(t))
    /\ WF_vars(StopJoin)

----------------------------------------------------------------------------
(* Properties of the sensor reader, under SpecReader and SpecReaderFair *)

(* A step that is one call of start. *)
StartStep == reader'.starts = reader.starts + 1

(* C14: at most one poll thread is alive at any time, whatever the sequence
   of start and stop: a start while the thread runs creates none, any other
   start (the first, or one after a stop) creates exactly one. *)
C14_AtMostOneThread ==
    /\ [](Cardinality(AliveThreads(reader)) <= 1)
    /\ [][StartStep =>
            IF AliveThreads(reader) # {}
            THEN reader'.pc = reader.pc
            ELSE Cardinality(AliveThreads(reader') \ AliveThreads(reader)) = 1]_vars

(* start, start again while running, stop, start: the first thread has
   finished and the second is the only one alive. *)
C14_Witness ==
    /\ reader.starts = 3
    /\ reader.pc[1] = "done"
    /\ AliveThreads(reader) = {2}
    /\ reader.reader_thread = Some(2)

(* stop has returned and no start was called since. *)
Stopped ==
    reader.caller = "idle" /\ reader.reader_thread = None /\ reader.stop_event

(* C15: stop returns only once the poll thread has finished; the iteration
   under way, callback included, runs to its end; from the return of stop to
   the next start no thread is alive and the callback is not invoked; and
   under fair scheduling every stop returns. *)
C15_StopWaitsForThread ==
    /\ [][(reader.caller = "joining" /\ reader'.caller = "idle") =>
             AliveThreads(reader) = {}]_vars
    /\ [][\A t \in ThreadIds :
             (reader.pc[t] = "callback" /\ reader'.pc[t] # "callback") =>
                 (reader'.pc[t] = "wait" /\ reader'.invoked = reader.invoked + 1)]_vars
    /\ [](Stopped => AliveThreads(reader) = {})
    /\ [][Stopped => reader'.invoked = reader.invoked]_vars
    /\ (reader.caller = "joining") ~> (reader.caller = "idle")

(* stop was called while the callback ran and has returned: the callback
   finished first and the thread is gone. *)
C15_Witness ==
    /\ Stopped
    /\ call.name = "stop"
    /\ ret.kind = "ok"
    /\ reader.pc[1] = "done"
    /\ reader.invoked = 1
    /\ reader.last = "reading"
    /\ last_action # None

(* C16: the loop invokes the callback once for every poll that gives a
   complete reading and for no other poll; a poll without data, a poll that
   raises and a callback that raises are followed by the wait of the same
   iteration; the thread leaves the loop only at its head with the stop
   event set. *)
C16_PollLoop ==
    /\ [](reader.invoked + Cardinality({t \in ThreadIds : reader.pc[t] = "callback"})
            = reader.complete)
    /\ [][\A t \in ThreadIds :
            /\ (reader.pc[t] = "poll" /\ reader'.pc[t] # "poll") =>
                  /\ reader'.invoked = reader.invoked
                  /\ IF reader'.complete = reader.complete + 1
                     THEN reader'.pc[t] = "callback" /\ reader'.local[t] # None
                     ELSE /\ reader'.pc[t] = "wait"
                          /\ reader'.last \in {"no_data", "poll_error"}
            /\ (reader.pc[t] = "callback" /\ reader'.pc[t] # "callback") =>
                  /\ reader'.pc[t] = "wait"
                  /\ reader'.invoked = reader.invoked + 1
            /\ (reader.pc[t] # "done" /\ reader'.pc[t] = "done") =>
                  (reader.pc[t] = "head" /\ reader.stop_event)]_vars

(* After a callback that raised, the same thread polled again and is about
   to deliver the next reading. *)
C16_Witness ==
    /\ reader.last = "callback_error"
    /\ reader.invoked = 1
    /\ reader.complete = 2
    /\ reader.pc[1] = "callback"
    /\ ~reader.stop_event

----------------------------------------------------------------------------
(* Further properties of configure_oracle and _handle_reading, under
   SpecOracle *)

(* C21: on a system constructed with force_mock_data = True,
   configure_oracle makes no connection attempt, returns False, and leaves
   using_mock_data true and oracle_storage None, whatever the database
   would have answered. *)
C21_MockModeIgnoresConfigure ==
    [][(/\ call'.name = "configure_oracle"
        /\ system = NewSystem(TRUE, TRUE, "ok", "some")) =>
          /\ ret'.kind = "False"
          /\ ret'.results = <<>>
          /\ system'.using_mock_data
          /\ system'.oracle_storage = None]_vars

(* configure_oracle was called on the forced-mock system with a database
   that would have connected at once with a complete schema. *)
C21_Witness ==
    /\ call.name = "configure_oracle"
    /\ call.args = <<"ok">>
    /\ call.action = "complete"
    /\ ret.kind = "False"
    /\ ret.results = <<>>
    /\ system = NewSystem(TRUE, TRUE, "ok", "some")

----------------------------------------------------------------------------
(* storage/oracle_db.py: OracleStorage.connect, one step per connection
   attempt and per wait of its retry loop *)

(* config.retry_count and config.retry_delay are read from the database
   configuration module; the runs explore these values. *)
MaxRetryCount == 3

MaxConnects == 2

RetryCounts == 1 .. MaxRetryCount

RetryDelays == {1, 2}

(* What oracledb.connect does at each attempt of one call. *)
ConnectOutcomes ==
    {o \in [1 .. MaxRetryCount -> {"ok", "DatabaseError", "Exception"}] : TRUE}

(* connect() is entered: the locals of its frame are initialised.  calls
   counts the calls of connect made on this storage. *)
ConnectCall(max_retries, retry_delay, outcomes) ==
    /\ storage.pc \in {"idle", "returned", "raised"}
    /\ storage.calls < MaxConnects
    /\ storage' = [storage EXCEPT !.pc = "loop", !.max_retries = max_retries,
                                  !.retry_delay = retry_delay, !.retry_count = 0,
                                  !.last_exception = None, !.outcomes = outcomes,
                                  !.attempts = 0, !.waits = <<>>, !.raised = None,
                                  !.calls = @ + 1]
    /\ UNCHANGED <<devices, faulty, clock, limits, reading_buffer, last_action,
                   call, ret, menu, reader, system, custom_alerts>>

(* The wait after the retry_count-th failure. *)
WaitTime(retry_delay, retry_count) == retry_delay * 2 ^ (retry_count - 1)

(* One iteration of `while retry_count < max_retries`: oracledb.connect
   either returns a connection, which is stored and ends the loop (break),
   or raises; both except clauses record the exception, count the retry and
   go to sleep when another attempt is left. *)
ConnectAttempt ==
    /\ storage.pc = "loop"
    /\ storage.retry_count < storage.max_retries
    /\ LET n == storage.attempts + 1
           outcome == storage.outcomes[n]
       IN  storage' =
             IF outcome = "ok"
             THEN [storage EXCEPT !.attempts = n,
                                  !.connection = Some(<<storage.calls, n>>),
                                  !.pc = "connected"]
             ELSE [storage EXCEPT !.attempts = n,
                                  !.last_exception = Some(<<outcome, n>>),
                                  !.retry_count = @ + 1,
                                  !.pc = IF storage.retry_count + 1 < storage.max_retries
                                         THEN "wait" ELSE "loop"]
    /\ UNCHANGED <<devices, faulty, clock, limits, reading_buffer, last_action,
                   call, ret, menu, reader, system, custom_alerts>>

(* time.sleep(wait_time) returns. *)
ConnectWait ==
    /\ storage.pc = "wait"
    /\ storage' = [storage EXCEPT
                      !.waits = Append(@, WaitTime(storage.retry_delay,
                                                   storage.retry_count)),
                      !.pc = "loop"]
    /\ UNCHANGED <<devices, faulty, clock, limits, reading_buffer, last_action,
                   call, ret, menu, reader, system, custom_alerts>>

(* The loop ends with retry_count >= max_retries: the last exception is
   raised, and re-raised by the outer except clauses. *)
ConnectRaise ==
    /\ storage.pc = "loop"
    /\ storage.retry_count >= storage.max_retries
    /\ storage' = [storage EXCEPT
                      !.raised = IF storage.last_exception # None
                                 THEN storage.last_exception
                                 ELSE Some(<<"Exception", 0>>),
                      !.pc = "raised"]
    /\ UNCHANGED <<devices, faulty, clock, limits, reading_buffer, last_action,
                   call, ret, menu, reader, system, custom_alerts>>

(* After break: the version query, the connection settings and the test
   query each run inside their own try/except; connect returns. *)
ConnectReturn ==
    /\ storage.pc = "connected"
    /\ storage' = [storage EXCEPT !.pc = "returned"]
    /\ UNCHANGED <<devices, faulty, clock, limits, reading_buffer, last_action,
                   call, ret, menu, reader, system, custom_alerts>>

InitConnect ==
    /\ InitSystem
    /\ faulty = {}
    /\ limits = DefaultLimits
    /\ call = NoCall

NextConnect ==
    \/ \E max_retries \in RetryCounts, retry_delay \in RetryDelays,
          outcomes \in ConnectOutcomes :
           ConnectCall(max_retries, retry_delay, outcomes)
    \/ ConnectAttempt
    \/ ConnectWait
    \/ ConnectRaise
    \/ ConnectReturn

SpecConnect == InitConnect /\ [][NextConnect]_vars

(* The thread that called connect keeps running: every step of the call is
   eventually taken. *)
SpecConnectFair ==
    /\ SpecConnect
    /\ WF_vars(ConnectAttempt)
    /\ WF_vars(ConnectWait)
    /\ WF_vars(ConnectRaise)
    /\ WF_vars(ConnectReturn)

----------------------------------------------------------------------------
(* Properties of OracleStorage.connect, under SpecConnectFair *)

Doubling(waits) ==
    \A i \in 1 .. Len(waits) - 1 : waits[i + 1] = 2 * waits[i]

(* The attempts and waits of a call of connect that returned: the failures
   before the first success, then the success. *)
ReturnedCounts ==
    storage.pc = "returned" =>
        /\ storage.attempts <= storage.max_retries
        /\ storage.outcomes[storage.attempts] = "ok"
        /\ \A j \in 1 .. storage.attempts - 1 : storage.outcomes[j] # "ok"
        /\ Len(storage.waits) = storage.attempts - 1
        /\ Doubling(storage.waits)
        /\ storage.connection = Some(<<storage.calls, storage.attempts>>)

(* The attempts and waits of a call of connect that raised. *)
RaisedCounts ==
    storage.pc = "raised" =>
        /\ storage.attempts = storage.max_retries
        /\ \A j \in 1 .. storage.max_retries : storage.outcomes[j] # "ok"
        /\ Len(storage.waits) = storage.max_retries - 1
        /\ Doubling(storage.waits)
        /\ storage.raised =
              Some(<<storage.outcomes[storage.max_retries], storage.max_retries>>)

ConnectTerminates ==
    storage.pc = "loop" ~> storage.pc \in {"returned", "raised"}

(* C22: connect makes at most max_retries attempts and stops at the first
   success; k failures then a success make k + 1 attempts and k waits, each
   wait twice the one before; max_retries failures raise the last exception
   after max_retries attempts and max_retries - 1 waits and leave no
   connection set; every call terminates. *)
C22_ConnectRetriesBounded ==
    /\ [](storage.attempts <= storage.max_retries)
    /\ []ReturnedCounts
    /\ []RaisedCounts
    /\ [](storage.pc = "raised" => storage.connection = None)
    /\ ConnectTerminates

(* The same without the clause on the connection left by a failed call. *)
C22_CountsAndTermination ==
    /\ [](storage.attempts <= storage.max_retries)
    /\ []ReturnedCounts
    /\ []RaisedCounts
    /\ ConnectTerminates

(* A second call of connect failed at every attempt on a storage that the
   first call had connected. *)
C22_StaleConnection ==
    /\ storage.pc = "raised"
    /\ storage.calls = 2
    /\ storage.attempts = storage.max_retries
    /\ storage.connection # None

----------------------------------------------------------------------------
(* sensors/reader.py: SensorReader.get_latest_reading, called from the main
   thread while the poll thread runs *)

(* queue.Queue.get_nowait() removes and returns the item at the head of the
   queue, the oldest one; on an empty queue it raises queue.Empty, and the
   except clause then evaluates Queue.Empty on the class queue.Queue, which
   has no such attribute: AttributeError leaves the method. *)
GetLatestReading ==
    /\ call' = [NoCall EXCEPT !.name = "get_latest_reading"]
    /\ IF reader.reading_queue # <<>>
       THEN /\ ret' = [NoRet EXCEPT !.kind = "reading",
                                    !.results = <<Head(reader.reading_queue)>>]
            /\ reader' = [reader EXCEPT !.reading_queue = Tail(@)]
       ELSE /\ ret' = Raised("AttributeError", <<"Queue", "Empty">>)
            /\ UNCHANGED reader
    /\ UNCHANGED <<devices, faulty, clock, limits, reading_buffer, last_action,
                   menu, system, storage, custom_alerts>>

NextQueue ==
    \/ NextReader
    \/ GetLatestReading

SpecQueue == InitReader /\ [][NextQueue]_vars

(* C23: get_latest_reading returns the most recent reading the poll loop
   produced, and returns None, without raising, when the queue is empty. *)
C23_LatestReading ==
    [][call'.name = "get_latest_reading" =>
          IF reader.reading_queue = <<>>
          THEN ret'.kind = "None"
          ELSE /\ ret'.kind = "reading"
               /\ ret'.results = <<reader.reading_queue[Len(reader.reading_queue)]>>]_vars

(* get_latest_reading raised on an empty queue. *)
C23_RaisedOnEmptyQueue ==
    /\ call.name = "get_latest_reading"
    /\ ret.kind = "AttributeError"
    /\ reader.reading_queue = <<>>

(* get_latest_reading returned a reading while a different, newer one was
   still queued. *)
C23_ReturnedOlderReading ==
    /\ call.name = "get_latest_reading"
    /\ ret.kind = "reading"
    /\ reader.reading_queue # <<>>
    /\ ret.results # <<reader.reading_queue[Len(reader.reading_queue)]>>
    /\ reader.complete = 2

----------------------------------------------------------------------------
(* sensors/reader.py: ReadingBuffer.add_reading on the buffer the system
   constructs, ReadingBuffer() with max_size = 60 *)

(* The buffer is filled beyond max_size by MaxAdds readings. *)
MaxAdds == 3

(* SensorReading.timestamp: the reading r taken at time ts. *)
Stamped(r, ts) == r @@ [timestamp |-> ts]

(* The readings offered at time now: either temperature while the buffer
   starts to fill and once it is full, 25 C in between. *)
BufferReadings(now) ==
    {Stamped(Reading(t, 20, 60, 1000, 10, 25, TRUE), now) :
        t \in IF now <= MaxAdds \/ now > MaxSize THEN {25, 40} ELSE {25}}

(* reading_buffer.add_reading(reading) with the reading taken now. *)
AddReadingCall(r) ==
    /\ clock < MaxSize + MaxAdds
    /\ clock' = clock + 1
    /\ reading_buffer' = AddReading(reading_buffer, r)
    /\ call' = [NoCall EXCEPT !.name = "add_reading", !.reading = Some(r)]
    /\ ret' = [NoRet EXCEPT !.kind = "None"]
    /\ UNCHANGED <<devices, faulty, limits, last_action, menu, reader, system,
                   storage, custom_alerts>>

InitBuffer ==
    /\ InitSystem
    /\ faulty = {}
    /\ limits = DefaultLimits
    /\ call = NoCall

NextBuffer == \E r \in BufferReadings(clock + 1) : AddReadingCall(r)

SpecBuffer == InitBuffer /\ [][NextBuffer]_vars

(* C24: the buffer never holds more than max_size readings; adding to a
   full buffer evicts exactly the oldest entry; after n additions the buffer
   holds the min(n, max_size) most recently added readings in arrival
   order. *)
C24_BufferBounded ==
    /\ [](Len(reading_buffer) <= MaxSize)
    /\ [][(call'.name = "add_reading" /\ clock' = clock + 1
             /\ Len(reading_buffer) = MaxSize) =>
               reading_buffer' = Append(Tail(reading_buffer), call'.reading[1])]_vars
    /\ [](/\ Len(reading_buffer) = Min(clock, MaxSize)
          /\ \A i \in 1 .. Len(reading_buffer) :
                reading_buffer[i].timestamp = clock - Len(reading_buffer) + i
          /\ call.name = "add_reading" =>
                reading_buffer[Len(reading_buffer)] = call.reading[1])

(* The full buffer took one more reading: the first two readings are gone
   and the reading just added is a 40 C one behind 25 C ones. *)
C24_Witness ==
    /\ call.name = "add_reading"
    /\ clock = MaxSize + 2
    /\ Len(reading_buffer) = MaxSize
    /\ reading_buffer[1].timestamp = 3
    /\ reading_buffer[MaxSize].temperature = 40
    /\ reading_buffer[MaxSize - 1].temperature = 25

----------------------------------------------------------------------------
(* main.py: _handle_reading delivering readings until the shared buffer is
   full, on the system without Oracle *)

(* The readings delivered at time now: either temperature for the first
   MaxReadings readings and once the buffer is full, 25 C in between. *)
HandledReadings(now) ==
    {Stamped(Reading(t, 20, 60, 1000, 10, 25, TRUE), now) :
        t \in IF now <= MaxReadings \/ now > MaxSize \div 2 THEN {25, 40} ELSE {25}}

(* self._handle_reading(reading), called by the poll thread with the
   reading taken now. *)
HandleStampedReading(r) ==
    \E h \in {HandleReading(r, {})} :
        /\ clock < MaxSize \div 2 + MaxReadings
        /\ clock' = clock + 1
        /\ call' = [NoCall EXCEPT !.name = "_handle_reading", !.reading = Some(r)]
        /\ reading_buffer' = h.buffer
        /\ last_action' = h.last_action
        /\ devices' = h.devs
        /\ system' = h.system
        /\ ret' = h.ret
        /\ UNCHANGED <<faulty, limits, menu, reader, storage, custom_alerts>>

InitHandled ==
    /\ InitSystem
    /\ faulty = {}
    /\ limits = DefaultLimits
    /\ call = NoCall

NextHandled == \E r \in HandledReadings(clock + 1) : HandleStampedReading(r)

SpecHandled == InitHandled /\ [][NextHandled]_vars

(* The times at which the readings held by the buffer were taken. *)
BufferedTimes == {reading_buffer[i].timestamp : i \in 1 .. Len(reading_buffer)}

(* C25: every reading delivered to _handle_reading is in the shared buffer
   twice: after n handled readings the buffer holds min(2n, max_size)
   entries, in adjacent equal pairs, and they are the min(n, max_size / 2)
   most recent readings and no others. *)
C25_ReadingsBufferedTwice ==
    /\ Len(reading_buffer) = Min(2 * clock, MaxSize)
    /\ \A i \in 1 .. Len(reading_buffer) \div 2 :
          reading_buffer[2 * i - 1] = reading_buffer[2 * i]
    /\ BufferedTimes = (clock - Min(clock, MaxSize \div 2) + 1) .. clock
    /\ call.name = "_handle_reading" =>
          /\ reading_buffer[Len(reading_buffer)] = call.reading[1]
          /\ reading_buffer[Len(reading_buffer) - 1] = call.reading[1]

(* Two readings more than the buffer can hold twice were handled: the
   buffer is full and starts at the third reading. *)
C25_Witness ==
    /\ call.name = "_handle_reading"
    /\ clock = MaxSize \div 2 + 2
    /\ Len(reading_buffer) = MaxSize
    /\ reading_buffer[1].timestamp = 3
    /\ Cardinality(BufferedTimes) = MaxSize \div 2
    /\ call.reading[1].temperature = 40

----------------------------------------------------------------------------
(* core/control.py: _determine_actions under any limits the controller can
   hold, valid or left inverted by the parameters menu *)

AnyLimits ==
    LimitsSet \cup
    {[DefaultLimits EXCEPT !.temp_min = 38, !.temp_max = 12],
     [DefaultLimits EXCEPT !.humidity_min = 90, !.humidity_max = 10,
                           !.pressure_target = -200, !.co2_max = -1]}

InitAnyLimits ==
    /\ InitSystem
    /\ faulty = {}
    /\ limits \in AnyLimits
    /\ \E r \in Readings : call = [NoCall EXCEPT !.reading = Some(r)]

SpecAnyLimits == InitAnyLimits /\ [][NextDet]_vars

(* C26: for every valid reading and every limits value the action has
   fan_speed in {20, 60, 80, 100}, curtain_position in {0, 50, 100} and
   inlet_position in [20, 100]; so every command process_reading builds
   from it passes validation, and process_reading on the registry returns
   without raising. *)
C26_ActionInRange ==
    Determined =>
        /\ TheAction.fan_speed \in {20, 60, 80, 100}
        /\ TheAction.curtain_position \in {0, 50, 100}
        /\ 20 <= TheAction.inlet_position /\ TheAction.inlet_position <= 100
        /\ ValidCommand("partial", Some(TheAction.fan_speed))
        /\ ValidCommand("partial", Some(TheAction.curtain_position))
        /\ ValidCommand("partial", Some(TheAction.inlet_position))
        /\ ValidCommand(OnOff(TheAction.heaters_on), None)
        /\ ValidCommand(OnOff(TheAction.nebulizers_on), None)
        /\ \E out \in {ApplyAction(TheAction, devices, clock + 1)} :
              out.raised = ""

(* Under limits with a pressure target far below the reading, the
   proportional inlet adjustment reached its cap while ammonia was normal,
   on battery power. *)
C26_Witness ==
    /\ Determined
    /\ limits.pressure_target = -200
    /\ TheReading.ammonia_level <= limits.ammonia_max
    /\ TheAction.inlet_position = 100
    /\ TheAction.fan_speed = 60
    /\ TheAction.curtain_position = 50

(* C29: the action has heaters_on only if the temperature is below
   temp_min and power is available; the high-temperature branch and the
   low-temperature branch of the temperature check are never both taken. *)
C29_HeatersOnlyWhenCold ==
    Determined =>
        /\ TheAction.heaters_on =>
              (TheReading.temperature < limits.temp_min /\ TheReading.power_ok)
        /\ \E c \in {CheckTemperature(Baseline, TheReading, limits)} :
              /\ ~(c.heaters_on /\ (c.fan_speed = 100 \/ c.nebulizers_on))
              /\ c.heaters_on => ~(TheReading.temperature > limits.temp_max)

(* Under inverted limits a temperature above temp_max and below temp_min
   took the high-temperature branch only. *)
C29_HighBranchOnly ==
    /\ Determined
    /\ TheReading.temperature > limits.temp_max
    /\ TheReading.temperature < limits.temp_min
    /\ TheReading.power_ok
    /\ ~TheAction.heaters_on
    /\ TheAction.nebulizers_on

(* A cold reading with power turned the heaters on. *)
C29_Witness ==
    /\ Determined
    /\ TheAction.heaters_on
    /\ TheReading.temperature < limits.temp_min
    /\ TheReading.power_ok

----------------------------------------------------------------------------
(* Further properties of process_reading, under Spec *)

(* Every device of the class ids is in the given state with the given
   value. *)
AllShow(ids, state, value) ==
    \A i \in DOMAIN ids :
        devices[ids[i]].state = state /\ devices[ids[i]].value = value

(* C27: after process_reading(r) with action a every fan is partial with
   value a.fan_speed, every curtain partial with a.curtain_position (also
   when that is 0 or 100), every inlet partial with a.inlet_position, the
   heaters are on iff a.heaters_on and the nebulizers on iff
   a.nebulizers_on, both without a value; no device is in error; the
   returned list has 16 entries in the order fans, curtains, inlets,
   heaters, nebulizers, alarms, each the status of its device. *)
C27_DevicesFollowAction ==
    Processed =>
        \E a \in {DetermineActions(TheReading, limits)} :
            /\ AllShow(Fans, "partial", Some(a.fan_speed))
            /\ AllShow(Curtains, "partial", Some(a.curtain_position))
            /\ AllShow(Inlets, "partial", Some(a.inlet_position))
            /\ AllShow(Heaters, OnOff(a.heaters_on), None)
            /\ AllShow(Nebulizers, OnOff(a.nebulizers_on), None)
            /\ \A id \in DeviceIds : devices[id].state # "error"
            /\ ret.kind = "ok"
            /\ Len(ret.results) = 16
            /\ \A i \in 1 .. 16 :
                  ret.results[i] = <<Registry[i], StatusOf(Registry[i], devices[Registry[i]])>>

(* A cold reading was processed after a hot one: the curtains went from
   partial 100 to partial 0 and the heaters are on. *)
C27_Witness ==
    /\ Processed
    /\ clock = 2
    /\ TheReading.temperature = 10
    /\ devices["CUR001"].state = "partial"
    /\ devices["CUR001"].value = Some(0)
    /\ devices["CUR001"].level = Some(0)
    /\ devices["HTR002"].state = "on"
    /\ devices["FAN004"].value = Some(20)
    /\ reading_buffer[1].temperature = 40

----------------------------------------------------------------------------
(* The system constructed on an empty database, under SpecOracle *)

(* C28: the constructor that connects, finds the schema complete and the
   database empty leaves using_mock_data true with oracle_storage set; a
   reading handled by that system stores nothing in Oracle and leaves it in
   mock mode with the same storage; only configure_oracle ends that. *)
C28_EmptyDatabaseMeansMockMode ==
    /\ [](system = NewSystem(TRUE, FALSE, "ok", "empty") =>
            (system.using_mock_data /\ system.oracle_storage # None))
    /\ [][(/\ call'.name = "_handle_reading"
            /\ system.oracle_storage =
                  NewSystem(TRUE, FALSE, "ok", "empty").oracle_storage
            /\ system.using_mock_data =
                  NewSystem(TRUE, FALSE, "ok", "empty").using_mock_data) =>
              /\ system'.stores = <<>>
              /\ system'.using_mock_data
              /\ system'.oracle_storage = system.oracle_storage]_vars

(* The system constructed on an empty database handled a reading and stored
   it and the 16 device statuses in Oracle. *)
C28_StoredOnEmptyDatabase ==
    /\ call.name = "_handle_reading"
    /\ clock = 1
    /\ system.oracle_storage = NewSystem(TRUE, FALSE, "ok", "empty").oracle_storage
    /\ ~system.using_mock_data
    /\ Len(system.stores) = 17
    /\ system.stores[1] = [name |-> "reading", ok |-> TRUE]

----------------------------------------------------------------------------
(* models/config.py: SystemConfig.add_alert, update_alert and remove_alert
   on custom_alerts *)

MaxAlerts == 3

AlertIds == {"ALERT1", "ALERT2"}

(* AlertConfig: the identifier and, for the rest of the configuration, the
   threshold of a temperature alert. *)
AlertConfigs ==
    {[alert_id |-> id, threshold |-> th] : id \in AlertIds, th \in {30, 35}}

(* The position of the first alert with the given id, 0 when there is
   none. *)
IndexOf(alerts, alert_id) ==
    IF \E i \in 1 .. Len(alerts) : alerts[i].alert_id = alert_id
    THEN CHOOSE i \in 1 .. Len(alerts) :
             /\ alerts[i].alert_id = alert_id
             /\ \A j \in 1 .. i - 1 : alerts[j].alert_id # alert_id
    ELSE 0

AlertCall(name, alert_id, alerts, returned) ==
    /\ call' = [NoCall EXCEPT !.name = name, !.target = alert_id, !.args = alerts]
    /\ ret' = [NoRet EXCEPT !.kind = IF returned THEN "True" ELSE "False"]
    /\ UNCHANGED <<devices, faulty, clock, limits, reading_buffer, last_action,
                   menu, reader, system, storage>>

(* SystemConfig.add_alert(alert) *)
AddAlert(alert) ==
    /\ Len(custom_alerts) < MaxAlerts
    /\ custom_alerts' = IF IndexOf(custom_alerts, alert.alert_id) # 0
                        THEN custom_alerts
                        ELSE Append(custom_alerts, alert)
    /\ AlertCall("add_alert", alert.alert_id, <<alert>>,
                 IndexOf(custom_alerts, alert.alert_id) = 0)

(* SystemConfig.update_alert(alert_id, updated_alert): the first alert with
   the id is replaced by updated_alert, whatever id that one carries. *)
UpdateAlert(alert_id, updated_alert) ==
    /\ custom_alerts' = IF IndexOf(custom_alerts, alert_id) = 0
                        THEN custom_alerts
                        ELSE [custom_alerts EXCEPT
                                 ![IndexOf(custom_alerts, alert_id)] = updated_alert]
    /\ AlertCall("update_alert", alert_id, <<updated_alert>>,
                 IndexOf(custom_alerts, alert_id) # 0)

(* SystemConfig.remove_alert(alert_id) *)
RemoveAlert(alert_id) ==
    /\ custom_alerts' =
          IF IndexOf(custom_alerts, alert_id) = 0
          THEN custom_alerts
          ELSE SubSeq(custom_alerts, 1, IndexOf(custom_alerts, alert_id) - 1)
               \o SubSeq(custom_alerts, IndexOf(custom_alerts, alert_id) + 1,
                         Len(custom_alerts))
    /\ AlertCall("remove_alert", alert_id, <<>>,
                 IndexOf(custom_alerts, alert_id) # 0)

InitAlerts ==
    /\ InitSystem
    /\ faulty = {}
    /\ limits = DefaultLimits
    /\ call = NoCall

NextAlerts ==
    \/ \E alert \in AlertConfigs : AddAlert(alert)
    \/ \E alert_id \in AlertIds, updated_alert \in AlertConfigs :
           UpdateAlert(alert_id, updated_alert)
    \/ \E alert_id \in AlertIds : RemoveAlert(alert_id)

SpecAlerts == InitAlerts /\ [][NextAlerts]_vars

HasAlert(alerts, alert_id) == \E i \in 1 .. Len(alerts) : alerts[i].alert_id = alert_id

(* C30: the alert ids in custom_alerts stay unique under any sequence of
   add_alert, update_alert and remove_alert; add_alert with an id already
   present returns False and leaves the list unchanged; update_alert and
   remove_alert with an unknown id return False and leave the list
   unchanged. *)
C30_AlertIdsUnique ==
    /\ [](\A i, j \in 1 .. Len(custom_alerts) :
            custom_alerts[i].alert_id = custom_alerts[j].alert_id => i = j)
    /\ [][/\ (call'.name = "add_alert" /\ HasAlert(custom_alerts, call'.target)) =>
               (ret'.kind = "False" /\ custom_alerts' = custom_alerts)
          /\ (call'.name \in {"update_alert", "remove_alert"}
                 /\ ~HasAlert(custom_alerts, call'.target)) =>
               (ret'.kind = "False" /\ custom_alerts' = custom_alerts)]_vars

(* The same without the uniqueness clause. *)
C30_RejectedCallsChangeNothing ==
    [][/\ (call'.name = "add_alert" /\ HasAlert(custom_alerts, call'.target)) =>
            (ret'.kind = "False" /\ custom_alerts' = custom_alerts)
       /\ (call'.name \in {"update_alert", "remove_alert"}
              /\ ~HasAlert(custom_alerts, call'.target)) =>
            (ret'.kind = "False" /\ custom_alerts' = custom_alerts)]_vars

(* update_alert of ALERT1 with a configuration carrying the id ALERT2
   returned True and left two alerts with the id ALERT2. *)
C30_DuplicateAfterUpdate ==
    /\ call.name = "update_alert"
    /\ call.target = "ALERT1"
    /\ ret.kind = "True"
    /\ Len(custom_alerts) = 2
    /\ custom_alerts[1].alert_id = "ALERT2"
    /\ custom_alerts[2].alert_id = "ALERT2"

====
